---- MODULE Spec2Model ----
(***************************************************************************)
(* A model of bulletml_rs: the BulletML document (tree.rs), the Runner     *)
(* that groups elementary engines and the RunnerImpl engine that walks the *)
(* document one frame at a time (runner.rs).                               *)
(*                                                                         *)
(* Numbers.  The program computes with f64.  The model keeps every number  *)
(* as an integer count of 1/Denom units, so 3 is written 3 * Denom and 2.5 *)
(* is 5 when Denom = 2.  A value interpolated by a ramp is a fraction and  *)
(* is kept as a pair <<numerator, denominator>> of such counts.            *)
(***************************************************************************)
EXTENDS Integers, Sequences, FiniteSets, TLC

\* The denominator of the fixed-point representation of f64 values.
Denom == 2

\* ------------------------------------------------------------------------
\* Bounds of the model.

\* The host stops calling Runner::run on a runner once its turn reaches this.
MaxTurn == 7
\* The host keeps at most this many Runners; further spawned States are dropped.
MaxRunners == 3
\* A host that keeps a record of its frames stops at this turn.
MaxTwinTurn == 3
\* A host reuses each of its Runners at most this many times.
MaxReuse == 1
\* A host reuses a Runner no later than this turn.
MaxReuseTurn == 2
\* The history of an engine counts at most this many executions of a node.
MaxRan == 8
\* A text given to the parser has at most this many elements.
MaxElems == 4

\* ------------------------------------------------------------------------
\* The variables.

VARIABLES
    doc,     \* the index in Docs of the document every Runner runs
    host,    \* the answers of the host queries other than turn and rank
    rank,    \* the answer of get_rank in the current frame
    rand,    \* the answer of get_rand in the current frame
    rs,      \* the host's Runners: runners (the engines) and turn (get_turn)
    pc,      \* "idle", or where the current Runner::run call is
    cur,     \* <<runner, engine>> of the current Runner::run call
    cmds,    \* the host commands of the current Runner::run call, in order
    log,     \* for each Runner the host keeps a record of, its frames so far:
             \* what the host answered and the commands it was given
    job      \* the text given to BulletMLParser::parse and what it returned,
             \* or None for a host that starts with a built document

vars == <<doc, host, rank, rand, rs, pc, cur, cmds, log, job>>

\* ------------------------------------------------------------------------
\* Option<T>: None is the empty tuple, Some(x) the one-element tuple.

None == <<>>
Some(x) == <<x>>
IsSome(o) == o # <<>>
IsNone(o) == o = <<>>
Unwrap(o) == o[1]

\* ------------------------------------------------------------------------
\* Labels are strings; the model spells them as tuples of characters so that
\* str::starts_with can be computed.

L_top == <<"t", "o", "p">>
L_top2 == <<"t", "o", "p", "2">>
L_to == <<"t", "o">>
L_stop == <<"s", "t", "o", "p">>
L_a == <<"a">>
L_b == <<"b">>
L_f == <<"f">>
L_blt == <<"b", "l", "t">>

\* ------------------------------------------------------------------------
\* Expressions (BulletMLExpression): a Const, or an Expr over + and - with
\* the named inputs v(i) ($i), rank ($rank) and rand ($rand).

K(n) == <<"const", n * Denom>>
KH(h) == <<"const", h>>
V(i) == <<"v", i>>
Rank == <<"rank">>
Rand == <<"rand">>
Add(a, b) == <<"add", a, b>>
Sub(a, b) == <<"sub", a, b>>
NoExpr == <<>>

\* ------------------------------------------------------------------------
\* Nodes (BulletMLNode) in an arena.  parent is an Option<NodeId>; label is
\* the Option<String> of Bullet / Action / Fire and Some(label) for the
\* three references; ty is the type tag; expr the expression.

Nd(kind, parent, label, ty, expr) ==
    [kind |-> kind, parent |-> parent, label |-> label, ty |-> ty, expr |-> expr]

BulletMLN(ty) == Nd("BulletML", None, None, ty, NoExpr)
Bullet(p, l) == Nd("Bullet", Some(p), l, "None", NoExpr)
Action(p, l) == Nd("Action", Some(p), l, "None", NoExpr)
Fire(p, l) == Nd("Fire", Some(p), l, "None", NoExpr)
ChangeDirection(p) == Nd("ChangeDirection", Some(p), None, "None", NoExpr)
ChangeSpeed(p) == Nd("ChangeSpeed", Some(p), None, "None", NoExpr)
Accel(p) == Nd("Accel", Some(p), None, "None", NoExpr)
Wait(p, e) == Nd("Wait", Some(p), None, "None", e)
Vanish(p) == Nd("Vanish", Some(p), None, "None", NoExpr)
Repeat(p) == Nd("Repeat", Some(p), None, "None", NoExpr)
Direction(p, ty, e) == Nd("Direction", Some(p), None, ty, e)
Speed(p, ty, e) == Nd("Speed", Some(p), None, ty, e)
Horizontal(p, ty, e) == Nd("Horizontal", Some(p), None, ty, e)
Vertical(p, ty, e) == Nd("Vertical", Some(p), None, ty, e)
Term(p, e) == Nd("Term", Some(p), None, "None", e)
Times(p, e) == Nd("Times", Some(p), None, "None", e)
BulletRef(p, l) == Nd("BulletRef", Some(p), Some(l), "None", NoExpr)
ActionRef(p, l) == Nd("ActionRef", Some(p), Some(l), "None", NoExpr)
FireRef(p, l) == Nd("FireRef", Some(p), Some(l), "None", NoExpr)
Param(p, e) == Nd("Param", Some(p), None, "None", e)

\* ------------------------------------------------------------------------
\* Documents.  An arena lists the nodes in the order the parser creates
\* them: a parent before its children, children in document order.

\* <action label="top"><repeat><times>2*$rank+0.5</times>
\*   <action><fire><bullet/></fire><wait>1</wait></action></repeat><vanish/></action>
ArenaRepeat ==
    << BulletMLN("None"),
       Action(1, Some(L_top)),
       Repeat(2),
       Times(3, Add(Add(Rank, Rank), KH(1))),
       Action(3, None),
       Fire(5, None),
       Bullet(6, None),
       Wait(5, K(1)),
       Vanish(2) >>

\* References nested two deep, a reference as the body of a repeat, waits
\* inside referenced actions.
ArenaRefs ==
    << BulletMLN("Vertical"),
       Action(1, Some(L_top)),
       ActionRef(2, L_a),
       Param(3, K(2)),
       Param(3, K(1)),
       Repeat(2),
       Times(6, K(2)),
       ActionRef(6, L_b),
       Param(8, K(0)),
       Vanish(2),
       Action(1, Some(L_a)),
       FireRef(11, L_f),
       Param(12, V(1)),
       Wait(11, V(2)),
       ActionRef(11, L_b),
       Param(15, V(2)),
       Action(1, Some(L_b)),
       Wait(17, V(1)),
       Fire(17, None),
       Bullet(19, None),
       Fire(1, Some(L_f)),
       BulletRef(21, L_blt),
       Param(22, Add(V(1), K(1))),
       Bullet(1, Some(L_blt)),
       Speed(24, "None", V(1)) >>

\* A bullet with three scripted actions: the spawned State has three root
\* cursors.
ArenaSiblings ==
    << BulletMLN("None"),
       Action(1, Some(L_top)),
       Fire(2, None),
       Bullet(3, None),
       Action(4, None),
       Wait(5, K(2)),
       Vanish(5),
       Action(4, None),
       ChangeSpeed(8),
       Speed(9, "None", K(3)),
       Term(9, K(2)),
       Fire(8, None),
       Bullet(12, None),
       Wait(8, K(1)),
       Fire(8, None),
       Bullet(15, None),
       ActionRef(4, L_a),
       Action(1, Some(L_a)),
       Wait(18, K(1)),
       Vanish(18) >>

\* The four ramps.
ArenaRamps ==
    << BulletMLN("None"),
       Action(1, Some(L_top)),
       ChangeSpeed(2),
       Speed(3, "None", K(3)),
       Term(3, K(2)),
       ChangeDirection(2),
       Direction(6, "Absolute", K(10)),
       Term(6, K(2)),
       Wait(2, K(1)),
       Accel(2),
       Horizontal(10, "Relative", K(1)),
       Vertical(10, "Sequence", K(1)),
       Term(10, K(3)),
       Wait(2, K(1)) >>

\* Several children of the root, of which two are "top" actions.
ArenaTops ==
    << BulletMLN("Horizontal"),
       Action(1, Some(L_top)),
       Vanish(2),
       Action(1, None),
       Vanish(4),
       Bullet(1, Some(L_top)),
       Action(1, Some(L_stop)),
       Vanish(7),
       Action(1, Some(L_top2)),
       Wait(9, K(3)),
       Action(9, Some(L_top)),
       Fire(11, None),
       Direction(12, "Absolute", K(100)),
       Bullet(12, None),
       Action(1, Some(L_to)),
       Fire(1, Some(L_top)) >>

\* Fires whose speed / direction come from the fire, from the bullet, or
\* from the host defaults.
ArenaFire ==
    << BulletMLN("None"),
       Action(1, Some(L_top)),
       Fire(2, None),
       Direction(3, "Absolute", K(360)),
       Speed(3, "None", K(2)),
       Bullet(3, None),
       Fire(2, None),
       Bullet(7, None),
       Fire(2, None),
       Direction(9, "Relative", K(0 - 20)),
       Speed(9, "Relative", K(1)),
       Bullet(9, None),
       Direction(12, "Sequence", K(30)),
       Speed(12, "Sequence", K(1)),
       Wait(2, K(1)),
       Fire(2, None),
       Speed(16, "Sequence", KH(1)),
       BulletRef(16, L_blt),
       Bullet(1, Some(L_blt)),
       Direction(19, "Aim", K(0 - 30)) >>

\* An actionRef whose label is declared by a fire only.
ArenaDangling ==
    << BulletMLN("None"),
       Action(1, Some(L_top)),
       Fire(2, None),
       Bullet(3, None),
       Wait(2, K(1)),
       ActionRef(2, L_f),
       Vanish(2),
       Action(1, Some(L_top2)),
       Wait(8, K(2)),
       Fire(8, None),
       Bullet(10, None),
       Fire(1, Some(L_f)) >>

\* $2 under a one-element parameter list, and $0 under the copy of that list
\* in a spawned bullet.
ArenaParam ==
    << BulletMLN("None"),
       Action(1, Some(L_top)),
       ActionRef(2, L_a),
       Param(3, K(1)),
       Action(1, Some(L_top2)),
       Wait(5, K(1)),
       Vanish(5),
       Action(1, Some(L_a)),
       Fire(8, None),
       Bullet(9, None),
       Action(10, None),
       Wait(11, V(0)),
       Wait(8, V(1)),
       Fire(8, None),
       Direction(14, "Absolute", V(2)),
       Bullet(14, None) >>

\* A changeSpeed without term, a changeDirection without direction, an accel
\* without term, a repeat without body (in a spawned bullet) and a repeat
\* without times.
ArenaMalformed ==
    << BulletMLN("None"),
       Action(1, Some(L_top)),
       ChangeSpeed(2),
       Speed(3, "None", K(3)),
       ChangeDirection(2),
       Term(5, K(2)),
       Accel(2),
       Horizontal(7, "Absolute", K(1)),
       Fire(2, None),
       Bullet(9, None),
       Action(10, None),
       Repeat(11),
       Times(12, K(1)),
       Wait(2, K(1)),
       Repeat(2),
       Action(15, None),
       Vanish(16),
       Vanish(2),
       Action(1, Some(L_top2)),
       Wait(19, K(1)),
       Fire(19, None),
       Bullet(21, None) >>

\* Labels declared twice (one after the other, and one inside the other), and
\* a bullet reached through a bulletRef whose children are a speed, an
\* action, an actionRef and an action.
ArenaSpawn ==
    << BulletMLN("None"),
       Action(1, Some(L_top)),
       ActionRef(2, L_a),
       Param(3, K(3)),
       Wait(2, K(1)),
       FireRef(2, L_f),
       Vanish(2),
       Action(1, Some(L_a)),
       Vanish(8),
       Action(1, Some(L_a)),
       Fire(10, None),
       BulletRef(11, L_blt),
       Param(12, Add(V(1), K(1))),
       Param(12, K(5)),
       Wait(10, K(1)),
       Bullet(1, Some(L_blt)),
       Speed(16, "None", K(1)),
       Bullet(1, Some(L_blt)),
       Speed(18, "None", V(2)),
       Action(18, None),
       Wait(20, K(1)),
       Fire(20, None),
       Speed(22, "None", V(1)),
       Bullet(22, None),
       ActionRef(18, L_b),
       Param(25, V(2)),
       Action(18, None),
       Vanish(27),
       Action(1, Some(L_b)),
       Wait(29, K(1)),
       Action(29, Some(L_b)),
       Fire(31, None),
       Bullet(32, None),
       Fire(1, Some(L_f)),
       Direction(34, "Absolute", K(100)),
       Bullet(34, None),
       Fire(1, Some(L_f)),
       Bullet(37, None) >>

\* Values and a wait that depend on $rank and $rand.
ArenaRand ==
    << BulletMLN("None"),
       Action(1, Some(L_top)),
       Fire(2, None),
       Direction(3, "Absolute", Add(Rand, K(10))),
       Bullet(3, None),
       Wait(2, Add(Rank, Rand)),
       Fire(2, None),
       Speed(7, "None", Rand),
       Bullet(7, None),
       Wait(2, K(1)),
       Vanish(2) >>

\* A reference without params made under a list that is not empty, and waits
\* of 0.5, -1 and 0 between fires.
ArenaCallers ==
    << BulletMLN("None"),
       Action(1, Some(L_top)),
       ActionRef(2, L_a),
       Param(3, K(2)),
       Vanish(2),
       Action(1, Some(L_a)),
       ActionRef(6, L_b),
       Wait(6, V(1)),
       Action(1, Some(L_b)),
       Wait(9, KH(1)),
       Fire(9, None),
       Bullet(11, None),
       Wait(9, K(0 - 1)),
       Fire(9, None),
       Bullet(14, None),
       Wait(9, K(0)),
       Fire(9, None),
       Bullet(17, None) >>

\* Sequence-typed speed and direction as the first ones an engine evaluates,
\* then again after a wait, a changeSpeed and through a reference.
ArenaSequence ==
    << BulletMLN("None"),
       Action(1, Some(L_top)),
       Fire(2, None),
       Direction(3, "Sequence", K(30)),
       Speed(3, "Sequence", K(2)),
       Bullet(3, None),
       Wait(2, K(1)),
       ChangeSpeed(2),
       Speed(8, "Absolute", K(5)),
       Term(8, K(1)),
       ActionRef(2, L_a),
       Action(1, Some(L_a)),
       Fire(12, None),
       Direction(13, "Sequence", K(30)),
       Speed(13, "Sequence", K(1)),
       Bullet(13, None) >>

\* The four ramps live together in frames that also execute a fire, installed
\* in another order than changes goes through them; a changeSpeed and a
\* sequence-typed changeDirection executed while a ramp of their kind is live.
ArenaChanges ==
    << BulletMLN("None"),
       Action(1, Some(L_top)),
       Accel(2),
       Horizontal(3, "Relative", K(1)),
       Vertical(3, "Absolute", K(2)),
       Term(3, K(3)),
       ChangeSpeed(2),
       Speed(7, "Absolute", K(3)),
       Term(7, K(3)),
       ChangeDirection(2),
       Direction(10, "Absolute", K(200)),
       Term(10, K(3)),
       Wait(2, K(1)),
       Fire(2, None),
       Bullet(14, None),
       ChangeSpeed(2),
       Speed(16, "Absolute", K(5)),
       Term(16, K(1)),
       ChangeDirection(2),
       Direction(19, "Sequence", K(100)),
       Term(19, K(2)),
       Wait(2, K(1)),
       Fire(2, None),
       Bullet(23, None) >>

\* A repeat of 2 whose body holds a repeat of 2 with a wait in its body and,
\* through a reference, a repeat of 3; then a bullet with two actions, the
\* first of which ends with a wait of 2.
ArenaNested ==
    << BulletMLN("None"),
       Action(1, Some(L_top)),
       Repeat(2),
       Times(3, K(2)),
       Action(3, None),
       Repeat(5),
       Times(6, K(2)),
       Action(6, None),
       Fire(8, None),
       Bullet(9, None),
       Wait(8, K(1)),
       ActionRef(5, L_a),
       Action(1, Some(L_a)),
       Repeat(13),
       Times(14, K(3)),
       Action(14, None),
       Vanish(16),
       Fire(2, None),
       Bullet(18, None),
       Action(19, None),
       Wait(20, K(2)),
       Action(19, None),
       Vanish(22) >>

Arenas ==
    << ArenaRepeat, ArenaRefs, ArenaSiblings, ArenaRamps, ArenaTops, ArenaFire,
       ArenaDangling, ArenaParam, ArenaMalformed, ArenaSpawn, ArenaRand,
       ArenaCallers, ArenaSequence, ArenaChanges,
       ArenaNested >>

\* ------------------------------------------------------------------------
\* Label tables: parse_bullet / parse_action / parse_fire insert label -> id
\* when they create a labelled node, so a later node replaces an earlier one.

Max(S) == CHOOSE x \in S : \A y \in S : y <= x
Min(S) == CHOOSE x \in S : \A y \in S : x <= y

\* A faulty table: one table for the labels of all kinds.
LabelledAnyKind(arena, kind) == {n \in 1..Len(arena) : IsSome(arena[n].label) /\ arena[n].kind \in {"Bullet", "Action", "Fire"}}

Labelled(arena, kind) ==
    {n \in 1..Len(arena) : arena[n].kind = kind /\ IsSome(arena[n].label)}

\* A faulty table: an insert that keeps the entry already present.
LabelTableFirst(arena, kind) ==
    [l \in {Unwrap(arena[n].label) : n \in Labelled(arena, kind)} |->
        Min({n \in Labelled(arena, kind) : Unwrap(arena[n].label) = l})]

LabelTable(arena, kind) ==
    [l \in {Unwrap(arena[n].label) : n \in Labelled(arena, kind)} |->
        Max({n \in Labelled(arena, kind) : Unwrap(arena[n].label) = l})]

\* BulletML: the arena, the root and the three label tables.
BulletML(arena) ==
    [arena |-> arena,
     root |-> 1,
     bullet_refs |-> LabelTable(arena, "Bullet"),
     action_refs |-> LabelTable(arena, "Action"),
     fire_refs |-> LabelTable(arena, "Fire")]

Docs == [d \in 1..Len(Arenas) |-> BulletML(Arenas[d])]

\* BulletML::get_type: the coordinate tag of the root.
get_type(bml) == bml.arena[bml.root].ty

\* ------------------------------------------------------------------------
\* Navigation (indextree).

ChildSet(arena, p) == {n \in 1..Len(arena) : arena[n].parent = Some(p)}

RECURSIVE SortedSeq(_)
SortedSeq(S) == IF S = {} THEN <<>> ELSE <<Min(S)>> \o SortedSeq(S \ {Min(S)})

children(arena, p) == SortedSeq(ChildSet(arena, p))

first_child(arena, n) ==
    IF ChildSet(arena, n) = {} THEN None ELSE Some(Min(ChildSet(arena, n)))

parent(arena, n) == arena[n].parent

next_sibling(arena, n) ==
    IF IsNone(arena[n].parent) THEN None
    ELSE LET later == {m \in ChildSet(arena, Unwrap(arena[n].parent)) : m > n}
         IN IF later = {} THEN None ELSE Some(Min(later))

\* ------------------------------------------------------------------------
\* BulletMLNode predicates.

StartsWith(s, prefix) ==
    Len(s) >= Len(prefix) /\ SubSeq(s, 1, Len(prefix)) = prefix

\* A faulty is_top_action: the label must be "top" itself.
is_exactly_top(node) ==
    node.kind = "Action" /\ IsSome(node.label) /\ Unwrap(node.label) = L_top

is_top_action(node) ==
    node.kind = "Action" /\ IsSome(node.label) /\ StartsWith(Unwrap(node.label), L_top)

\* A match_ function is given by the set of node kinds on which it yields
\* Some.
match_any_action == {"Action", "ActionRef"}
match_any_bullet == {"Bullet", "BulletRef"}
match_direction == {"Direction"}
match_speed == {"Speed"}
match_horizontal == {"Horizontal"}
match_vertical == {"Vertical"}
match_term == {"Term"}
match_times == {"Times"}

\* get_children_ids_matching, get_first_child_id_matching: m is one of the
\* match_ sets.
get_children_ids_matching(arena, p, m) ==
    SelectSeq(children(arena, p), LAMBDA c : arena[c].kind \in m)

get_first_child_id_matching(arena, p, m) ==
    LET all == get_children_ids_matching(arena, p, m)
    IN IF all = <<>> THEN None ELSE Some(all[1])

\* ------------------------------------------------------------------------
\* Numbers.

\* `x as u32` / `x as usize` of an f64: truncation toward zero, negative
\* values saturate to 0.
as_u32(v) == IF v <= 0 THEN 0 ELSE v \div Denom

Deg(n) == n * Denom

Abs(x) == IF x < 0 THEN 0 - x ELSE x

RECURSIVE Gcd(_, _)
Gcd(a, b) == IF b = 0 THEN a ELSE Gcd(b, a % b)

\* The fraction n / d in lowest terms with a positive denominator; a zero
\* denominator (a division by zero: an infinity or a NaN) is kept as it is.
Frac(n, d) ==
    IF d = 0 THEN <<n, 0>>
    ELSE LET g == Gcd(Abs(n), Abs(d))
             sg == IF d < 0 THEN 0 - 1 ELSE 1
         IN <<sg * (n \div g), sg * (d \div g)>>

\* ------------------------------------------------------------------------
\* get_number_contents.  A Const is its value; an Expr is evaluated with the
\* callback for v(i), rank, rand (cx.rank and cx.rand are what get_rank and
\* get_rand answer).  EvalOk is FALSE where the evaluation panics:
\* parameters[i as usize - 1] outside the list.

RECURSIVE EvalOk(_, _)
EvalOk(expr, parameters) ==
    IF expr[1] = "v" THEN expr[2] >= 1 /\ expr[2] <= Len(parameters)
    ELSE IF expr[1] \in {"add", "sub"}
         THEN EvalOk(expr[2], parameters) /\ EvalOk(expr[3], parameters)
    ELSE TRUE

RECURSIVE get_number_contents(_, _, _)
get_number_contents(expr, parameters, cx) ==
    IF expr[1] = "const" THEN expr[2]
    ELSE IF expr[1] = "v" THEN parameters[expr[2]]
    ELSE IF expr[1] = "rank" THEN cx.rank
    ELSE IF expr[1] = "rand" THEN cx.rand
    ELSE IF expr[1] = "add"
         THEN get_number_contents(expr[2], parameters, cx)
              + get_number_contents(expr[3], parameters, cx)
    ELSE get_number_contents(expr[2], parameters, cx)
         - get_number_contents(expr[3], parameters, cx)

\* ------------------------------------------------------------------------
\* Validatable<T>.

ValidatableDefault == [value |-> 0, valid |-> FALSE]
ValidatableSet(v) == [value |-> v, valid |-> TRUE]
invalidate(x) == [x EXCEPT !.valid = FALSE]

\* ------------------------------------------------------------------------
\* LinearFunc<u32, f64>.

LinearFuncNew(first_x, last_x, first_y, last_y) ==
    [first_x |-> first_x, last_x |-> last_x, first_y |-> first_y, last_y |-> last_y,
     gradient |-> <<last_y - first_y, last_x - first_x>>]

get_value(f, x) ==
    Frac(f.first_y * f.gradient[2] + f.gradient[1] * (x - f.first_x), f.gradient[2])

is_last(f, x) == x >= f.last_x

get_last(f) == Frac(f.last_y, 1)

\* ------------------------------------------------------------------------
\* State and RunnerImpl::new.

State(bml_type, nodes, parameters) ==
    [bml_type |-> bml_type, nodes |-> nodes, parameters |-> parameters]

SeqRange(s) == {s[i] : i \in 1..Len(s)}

\* RunnerImpl::new, beside the observer fields obs.
RunnerImplWith(state, obs) ==
    [bml_type |-> state.bml_type,
     nodes |-> state.nodes,
     root_nodes |-> SeqRange(state.nodes),
     change_dir |-> None,
     change_spd |-> None,
     accel_x |-> None,
     accel_y |-> None,
     spd |-> ValidatableDefault,
     prev_spd |-> ValidatableDefault,
     dir |-> ValidatableDefault,
     prev_dir |-> ValidatableDefault,
     act |-> Some(state.nodes[1]),
     act_turn |-> None,
     end_turn |-> 0,
     act_iter |-> 1,
     end |-> FALSE,
     parameters |-> state.parameters,
     repeat_stack |-> <<>>,
     ref_stack |-> <<>>,
     obs |-> obs]

\* How many times the history o has node n as executed.
Ran(o, n) == Len(SelectSeq(o.ran, LAMBDA x : x = n))

\* The observer fields of an engine: a history of what the engine did, kept
\* beside it and read by no operation of the engine.
ObsNew(state) ==
    [roots |-> state.nodes,
     executed |-> {},
     ran |-> <<>>,
     calls |-> <<>>,
     root_left |-> <<>>,
     root_max |-> 0,
     root_ok |-> TRUE,
     refs |-> <<>>,
     ref_done |-> <<>>,
     reps |-> <<>>,
     rep_done |-> <<>>,
     wake |-> None,
     resumed |-> None,
     ramp |-> [dir |-> None, spd |-> None, x |-> None, y |-> None],
     ramp_ok |-> TRUE,
     ramp_fin |-> {},
     exhausted_at |-> None,
     quiet |-> FALSE,
     ended_at |-> None,
     end_cmds |-> 0,
     missed |-> FALSE,
     fire |-> [spd |-> None, dir |-> None],
     spawn |-> None,
     queried |-> None,
     flat |-> RunnerImplWith(state, <<>>),
     flat_ok |-> TRUE]

RunnerImplNew(state) == RunnerImplWith(state, ObsNew(state))

is_end(eng) == eng.end

\* A faulty is_turn_end: the turn of the frame is kept in one place for all
\* Runners, and holds what the first Runner was last given.
is_turn_end_static(eng) ==
    is_end(eng) \/ (IF IsSome(eng.act_turn) THEN Unwrap(eng.act_turn) ELSE 0) > rs[1].turn

\* A faulty is_turn_end: the wake turn is not looked at.
is_turn_end_awake(eng) == is_end(eng)

is_turn_end(eng) ==
    is_end(eng) \/ (IF IsSome(eng.act_turn) THEN Unwrap(eng.act_turn) ELSE 0) > eng.end_turn

\* A faulty do_wait: a wait of no frame suspends for one.
do_wait_at_least_one(eng, frame) ==
    IF frame > 0
    THEN [eng EXCEPT !.act_turn = Some(Unwrap(eng.act_turn) + frame)]
    ELSE [eng EXCEPT !.act_turn = Some(Unwrap(eng.act_turn) + 1)]

do_wait(eng, frame) ==
    IF frame > 0
    THEN [eng EXCEPT !.act_turn = Some(Unwrap(eng.act_turn) + frame)]
    ELSE eng

\* ------------------------------------------------------------------------
\* Runner::new: one engine for each "top" action child of the root.

RunnerNew(bml) ==
    LET tops == SelectSeq(children(bml.arena, bml.root),
                          LAMBDA c : is_top_action(bml.arena[c]))
    IN [i \in 1..Len(tops) |->
          RunnerImplNew(State(get_type(bml), <<tops[i]>>, <<>>))]

\* Runner::new_from_state: exactly one engine.
RunnerNewFromState(state) == << RunnerImplNew(state) >>

\* A faulty Runner::is_end: true when every engine has ended.
RunnerAllEnded(runners) == \A i \in 1..Len(runners) : runners[i].end

\* Runner::is_end: the loop returns true at the first ended engine.
RECURSIVE RunnerIsEndFrom(_, _)
RunnerIsEndFrom(runners, i) ==
    IF i > Len(runners) THEN FALSE
    ELSE IF is_end(runners[i]) THEN TRUE
    ELSE RunnerIsEndFrom(runners, i + 1)

RunnerIsEnd(runners) == RunnerIsEndFrom(runners, 1)

\* ------------------------------------------------------------------------
\* The operations of RunnerImpl on one node.  cx is what the engine reads
\* from outside: the document (cx.bml), the host's turn (cx.turn), rank
\* (cx.rank), get_rand (cx.rand) and the answers of the other host queries
\* (cx.h).  An operation
\* yields the engine after it and the host commands it issued, in order.

Ret(eng, out) == [eng |-> eng, cmds |-> out]

Last(s) == s[Len(s)]
Front(s) == SubSeq(s, 1, Len(s) - 1)

\* A faulty shot_init: spd and dir stay valid.
shot_keep(eng) == eng

shot_init(eng) == [eng EXCEPT !.spd = invalidate(eng.spd), !.dir = invalidate(eng.dir)]

RECURSIVE WhileAbove360(_)
WhileAbove360(direction) ==
    IF direction > Deg(360) THEN WhileAbove360(direction - Deg(360)) ELSE direction

\* A faulty second loop of get_direction: a negative direction is kept.
KeepBelow0(direction) == direction

RECURSIVE WhileBelow0(_)
WhileBelow0(direction) ==
    IF direction < 0 THEN WhileBelow0(direction + Deg(360)) ELSE direction

\* get_direction: the match on the direction type yields the value and
\* whether it is relative to the aim.
\* A faulty match: an absolute direction is turned under any tag.
DirectionOfTypeAnyTag(eng, dir_type, direction, cx) ==
    IF dir_type \in {"None", "Aim"} THEN <<direction, TRUE>>
    ELSE IF dir_type = "Absolute"
         THEN <<IF eng.bml_type # "None" THEN direction - Deg(90) ELSE direction,
                FALSE>>
    ELSE IF dir_type = "Relative" THEN <<direction + cx.h.bullet_direction, FALSE>>
    ELSE IF ~eng.prev_dir.valid THEN <<0, TRUE>>
         ELSE <<direction + eng.prev_dir.value, FALSE>>

DirectionOfType(eng, dir_type, direction, cx) ==
    IF dir_type \in {"None", "Aim"} THEN <<direction, TRUE>>
    ELSE IF dir_type = "Absolute"
         THEN <<IF eng.bml_type = "Horizontal" THEN direction - Deg(90) ELSE direction,
                FALSE>>
    ELSE IF dir_type = "Relative" THEN <<direction + cx.h.bullet_direction, FALSE>>
    ELSE IF ~eng.prev_dir.valid THEN <<0, TRUE>>
         ELSE <<direction + eng.prev_dir.value, FALSE>>

Aimed(pair, cx) == IF pair[2] THEN pair[1] + cx.h.aim_direction ELSE pair[1]

\* The engine with prev_dir / prev_spd set to the value, and the value.
Resolved(eng, field, result) ==
    [eng |-> [eng EXCEPT ![field] = ValidatableSet(result)], v |-> result]

get_direction(eng, dir_type, expr, cx) ==
    Resolved(eng, "prev_dir",
             WhileBelow0(WhileAbove360(
                 Aimed(DirectionOfType(eng, dir_type,
                                       get_number_contents(expr, eng.parameters, cx),
                                       cx), cx))))

\* get_speed: the match on the speed type.
\* A faulty match: a sequence speed is added to prev_spd whether or not it
\* holds a value.
SpeedOfTypeNoFirst(eng, spd_type, speed, cx) ==
    IF spd_type \in {"None", "Absolute"} THEN speed
    ELSE IF spd_type = "Relative" THEN speed + cx.h.bullet_speed
    ELSE speed + eng.prev_spd.value

SpeedOfType(eng, spd_type, speed, cx) ==
    IF spd_type \in {"None", "Absolute"} THEN speed
    ELSE IF spd_type = "Relative" THEN speed + cx.h.bullet_speed
    ELSE IF ~eng.prev_spd.valid THEN 1 * Denom
         ELSE speed + eng.prev_spd.value

get_speed(eng, spd_type, expr, cx) ==
    Resolved(eng, "prev_spd",
             SpeedOfType(eng, spd_type,
                         get_number_contents(expr, eng.parameters, cx), cx))

\* self.dir.set(..) / self.spd.set(..) on what get_direction / get_speed
\* yielded.
SetFrom(r, field) == [r.eng EXCEPT ![field] = ValidatableSet(r.v)]

NodeDirection(eng, n, cx) == get_direction(eng, n.ty, n.expr, cx)
NodeSpeed(eng, n, cx) == get_speed(eng, n.ty, n.expr, cx)

SetDirectionFrom(eng, c, cx) ==
    IF IsNone(c) THEN eng
    ELSE SetFrom(NodeDirection(eng, cx.bml.arena[Unwrap(c)], cx), "dir")

set_direction(eng, cx) ==
    IF IsNone(eng.act) THEN eng
    ELSE SetDirectionFrom(
             eng, get_first_child_id_matching(cx.bml.arena, Unwrap(eng.act), match_direction),
             cx)

SetSpeedFrom(eng, c, cx) ==
    IF IsNone(c) THEN eng
    ELSE SetFrom(NodeSpeed(eng, cx.bml.arena[Unwrap(c)], cx), "spd")

set_speed(eng, cx) ==
    IF IsNone(eng.act) THEN eng
    ELSE SetSpeedFrom(
             eng, get_first_child_id_matching(cx.bml.arena, Unwrap(eng.act), match_speed),
             cx)

\* The speed / direction a bullet falls back to when neither it nor its fire
\* gave one.
DefaultSpd(eng, cx) ==
    IF ~eng.spd.valid
    THEN [eng EXCEPT !.spd = ValidatableSet(cx.h.default_speed),
                     !.prev_spd = ValidatableSet(cx.h.default_speed)]
    ELSE eng

DefaultDir(eng, cx) ==
    IF ~eng.dir.valid
    THEN [eng EXCEPT !.dir = ValidatableSet(cx.h.aim_direction),
                     !.prev_dir = ValidatableSet(cx.h.aim_direction)]
    ELSE eng

\* A faulty spawn: the State gets an empty parameter list, as in Runner::new.
SpawnCmdFresh(e, all_actions) ==
    IF all_actions = <<>>
    THEN [op |-> "create_simple_bullet",
          direction |-> e.dir.value, speed |-> e.spd.value]
    ELSE [op |-> "create_bullet",
          state |-> State(e.bml_type, all_actions, <<>>),
          direction |-> e.dir.value, speed |-> e.spd.value]

\* The spawn command of a bullet node whose action children are all_actions.
SpawnCmd(e, all_actions) ==
    IF all_actions = <<>>
    THEN [op |-> "create_simple_bullet",
          direction |-> e.dir.value, speed |-> e.spd.value]
    ELSE [op |-> "create_bullet",
          state |-> State(e.bml_type, all_actions, e.parameters),
          direction |-> e.dir.value, speed |-> e.spd.value]

SpawnFrom(e, cx) ==
    Ret([e EXCEPT !.act = None],
        << SpawnCmd(e, IF IsNone(e.act) THEN <<>>
                       ELSE get_children_ids_matching(cx.bml.arena, Unwrap(e.act),
                                                      match_any_action)) >>)

run_bullet(eng, cx) ==
    SpawnFrom(DefaultDir(DefaultSpd(set_direction(set_speed(eng, cx), cx), cx), cx), cx)

\* run_fire descends into the bullet or bulletRef child when there is one.
Descend(e, bullet) == Ret(IF IsSome(bullet) THEN [e EXCEPT !.act = bullet] ELSE e, <<>>)

FireFrom(e, cx) ==
    Descend(e, get_first_child_id_matching(cx.bml.arena, Unwrap(e.act), match_any_bullet))

run_fire(eng, cx) == FireFrom(set_direction(set_speed(shot_init(eng), cx), cx), cx)

run_action(eng, cx) ==
    Ret([eng EXCEPT !.act = first_child(cx.bml.arena, Unwrap(eng.act))], <<>>)

run_wait(eng, expr, cx) ==
    LET frame == get_number_contents(expr, eng.parameters, cx)
    IN Ret([do_wait(eng, as_u32(frame)) EXCEPT !.act = None], <<>>)

RepeatElem(iter, end, act) == [iter |-> iter, end |-> end, act |-> act]

\* A faulty run_repeat: a repeat entered inside another one takes over the
\* frame of the enclosing loop instead of pushing its own.
run_repeat_one_frame(eng, act, cx) ==
    LET times == get_first_child_id_matching(cx.bml.arena, act, match_times)
    IN IF IsNone(times) THEN Ret(eng, <<>>)
       ELSE LET n == as_u32(get_number_contents(cx.bml.arena[Unwrap(times)].expr,
                                                eng.parameters, cx))
                action == get_first_child_id_matching(cx.bml.arena, act, match_any_action)
                below == IF eng.repeat_stack = <<>> THEN <<>>
                         ELSE Front(eng.repeat_stack)
            IN Ret([eng EXCEPT
                      !.repeat_stack = Append(below, RepeatElem(0, n, Unwrap(action))),
                      !.act = action], <<>>)

run_repeat(eng, act, cx) ==
    LET times == get_first_child_id_matching(cx.bml.arena, act, match_times)
    IN IF IsNone(times) THEN Ret(eng, <<>>)
       ELSE LET n == as_u32(get_number_contents(cx.bml.arena[Unwrap(times)].expr,
                                                eng.parameters, cx))
                action == get_first_child_id_matching(cx.bml.arena, act, match_any_action)
            IN Ret([eng EXCEPT
                      !.repeat_stack = Append(eng.repeat_stack,
                                              RepeatElem(0, n, Unwrap(action))),
                      !.act = action], <<>>)

\* A faulty get_parameters: the values are added to the caller's list.
get_parameters_inheriting(eng, cx) ==
    LET ps == SelectSeq(children(cx.bml.arena, Unwrap(eng.act)),
                        LAMBDA c : cx.bml.arena[c].kind = "Param")
    IN eng.parameters \o
       [i \in 1..Len(ps) |->
          get_number_contents(cx.bml.arena[ps[i]].expr, eng.parameters, cx)]

get_parameters(eng, cx) ==
    LET ps == SelectSeq(children(cx.bml.arena, Unwrap(eng.act)),
                        LAMBDA c : cx.bml.arena[c].kind = "Param")
    IN [i \in 1..Len(ps) |->
          get_number_contents(cx.bml.arena[ps[i]].expr, eng.parameters, cx)]

StackedRef(ref_id, prev, prev_parameters) ==
    [ref_id |-> ref_id, prev |-> prev, prev_parameters |-> prev_parameters]

\* A faulty run_ref: the frame is keyed by the node of the reference.
run_ref_keyed_by_reference(eng, act, ref_id, cx) ==
    LET new_parameters == get_parameters(eng, cx)
    IN Ret([eng EXCEPT
              !.parameters = new_parameters,
              !.ref_stack = Append(eng.ref_stack,
                                   StackedRef(act, act, eng.parameters)),
              !.act = Some(ref_id)], <<>>)

run_ref(eng, act, ref_id, cx) ==
    LET new_parameters == get_parameters(eng, cx)
    IN Ret([eng EXCEPT
              !.parameters = new_parameters,
              !.ref_stack = Append(eng.ref_stack,
                                   StackedRef(ref_id, act, eng.parameters)),
              !.act = Some(ref_id)], <<>>)

\* A faulty run_vanish: the engine is ended as well.
run_vanish_ending(eng, cx) ==
    Ret([eng EXCEPT !.act = None, !.end = TRUE], << [op |-> "do_vanish"] >>)

run_vanish(eng, cx) == Ret([eng EXCEPT !.act = None], << [op |-> "do_vanish"] >>)

\* ------------------------------------------------------------------------
\* The change nodes install ramps anchored at act_turn.

ActTurnOr0(eng) == IF IsSome(eng.act_turn) THEN Unwrap(eng.act_turn) ELSE 0

\* A faulty calc_change_direction: the ramp goes the raw difference.
calc_change_direction_raw(eng, direction, term, seq, cx) ==
    [eng EXCEPT !.change_dir =
        Some(LinearFuncNew(ActTurnOr0(eng), ActTurnOr0(eng) + term,
                           cx.h.bullet_direction,
                           IF seq THEN cx.h.bullet_direction + direction * term
                           ELSE direction))]

calc_change_direction(eng, direction, term, seq, cx) ==
    LET act_turn == ActTurnOr0(eng)
        final_turn == act_turn + term
        dir_first == cx.h.bullet_direction
        dir_space1 == direction - dir_first
        dir_space2 == IF dir_space1 > 0 THEN dir_space1 - Deg(360)
                      ELSE dir_space1 + Deg(360)
        dir_space == IF Abs(dir_space1) < Abs(dir_space2) THEN dir_space1
                     ELSE dir_space2
    IN IF seq
       THEN [eng EXCEPT !.change_dir =
                Some(LinearFuncNew(act_turn, final_turn, dir_first,
                                   dir_first + direction * term))]
       ELSE [eng EXCEPT !.change_dir =
                Some(LinearFuncNew(act_turn, final_turn, dir_first,
                                   dir_first + dir_space))]

run_change_direction(eng, cx) ==
    LET act == Unwrap(eng.act)
        term == get_first_child_id_matching(cx.bml.arena, act, match_term)
        direction == get_first_child_id_matching(cx.bml.arena, act, match_direction)
    IN IF IsNone(term) \/ IsNone(direction) THEN Ret([eng EXCEPT !.act = None], <<>>)
       ELSE LET d == cx.bml.arena[Unwrap(direction)]
                t == as_u32(get_number_contents(cx.bml.arena[Unwrap(term)].expr,
                                                eng.parameters, cx))
                e == IF d.ty = "Sequence"
                     THEN calc_change_direction(
                              eng, get_number_contents(d.expr, eng.parameters, cx),
                              t, TRUE, cx)
                     ELSE LET r == get_direction(eng, d.ty, d.expr, cx)
                          IN calc_change_direction(r.eng, r.v, t, FALSE, cx)
            IN Ret([e EXCEPT !.act = None], <<>>)

\* A faulty calc_change_speed: a live speed ramp is kept.
calc_change_speed_keeping(eng, speed, term, cx) ==
    LET act_turn == ActTurnOr0(eng)
        final_turn == act_turn + term
        spd_first == cx.h.bullet_speed
    IN IF IsSome(eng.change_spd) THEN eng
       ELSE [eng EXCEPT !.change_spd =
                Some(LinearFuncNew(act_turn, final_turn, spd_first, speed))]

calc_change_speed(eng, speed, term, cx) ==
    LET act_turn == ActTurnOr0(eng)
        final_turn == act_turn + term
        spd_first == cx.h.bullet_speed
    IN [eng EXCEPT !.change_spd = Some(LinearFuncNew(act_turn, final_turn, spd_first, speed))]

run_change_speed(eng, cx) ==
    LET act == Unwrap(eng.act)
        term == get_first_child_id_matching(cx.bml.arena, act, match_term)
        speed == get_first_child_id_matching(cx.bml.arena, act, match_speed)
    IN IF IsNone(term) \/ IsNone(speed) THEN Ret([eng EXCEPT !.act = None], <<>>)
       ELSE LET sp == cx.bml.arena[Unwrap(speed)]
                t == as_u32(get_number_contents(cx.bml.arena[Unwrap(term)].expr,
                                                eng.parameters, cx))
                e == IF sp.ty = "Sequence"
                     THEN calc_change_speed(
                              eng,
                              get_number_contents(sp.expr, eng.parameters, cx) * t
                                + cx.h.bullet_speed,
                              t, cx)
                     ELSE LET r == get_speed(eng, sp.ty, sp.expr, cx)
                          IN calc_change_speed(r.eng, r.v, t, cx)
            IN Ret([e EXCEPT !.act = None], <<>>)

calc_accel_xy(eng, first_spd, value, term, hv_type) ==
    LET act_turn == ActTurnOr0(eng)
        final_turn == act_turn + term
        final_spd == IF hv_type = "Sequence" THEN first_spd + value * term
                     ELSE IF hv_type = "Relative" THEN first_spd + value
                     ELSE value
    IN Some(LinearFuncNew(act_turn, final_turn, first_spd, final_spd))

run_accel(eng, cx) ==
    LET act == Unwrap(eng.act)
        term == get_first_child_id_matching(cx.bml.arena, act, match_term)
        horizontal == get_first_child_id_matching(cx.bml.arena, act, match_horizontal)
        vertical == get_first_child_id_matching(cx.bml.arena, act, match_vertical)
        t == as_u32(get_number_contents(cx.bml.arena[Unwrap(term)].expr,
                                        eng.parameters, cx))
        Val(c) == get_number_contents(cx.bml.arena[Unwrap(c)].expr, eng.parameters, cx)
        Ty(c) == cx.bml.arena[Unwrap(c)].ty
        forX == IF eng.bml_type = "Horizontal" THEN vertical ELSE horizontal
        forY == IF eng.bml_type = "Horizontal" THEN horizontal ELSE vertical
    IN IF IsNone(term) THEN Ret([eng EXCEPT !.act = None], <<>>)
       ELSE Ret([eng EXCEPT
                   !.accel_x = IF IsSome(forX)
                               THEN calc_accel_xy(eng, cx.h.bullet_speed_x, Val(forX), t, Ty(forX))
                               ELSE eng.accel_x,
                   !.accel_y = IF IsSome(forY)
                               THEN calc_accel_xy(eng, cx.h.bullet_speed_y, Val(forY), t, Ty(forY))
                               ELSE eng.accel_y,
                   !.act = None], <<>>)

\* ------------------------------------------------------------------------
\* changes: every live ramp issues one host call; a ramp at or past its last
\* turn issues its last value and is cleared.

RampCmd(f, now, op) ==
    IF IsNone(f) THEN <<>>
    ELSE IF is_last(Unwrap(f), now) THEN << [op |-> op, v |-> get_last(Unwrap(f))] >>
    ELSE << [op |-> op, v |-> get_value(Unwrap(f), now)] >>

RampAfter(f, now) ==
    IF IsSome(f) /\ is_last(Unwrap(f), now) THEN None ELSE f

\* A faulty changes: the speed ramp is gone through before the direction ramp.
changes_speed_first(eng, cx) ==
    LET now == cx.turn
    IN Ret([eng EXCEPT !.change_dir = RampAfter(eng.change_dir, now),
                       !.change_spd = RampAfter(eng.change_spd, now),
                       !.accel_x = RampAfter(eng.accel_x, now),
                       !.accel_y = RampAfter(eng.accel_y, now)],
           RampCmd(eng.change_spd, now, "do_change_speed")
             \o RampCmd(eng.change_dir, now, "do_change_direction")
             \o RampCmd(eng.accel_x, now, "do_accel_x")
             \o RampCmd(eng.accel_y, now, "do_accel_y"))

changes(eng, cx) ==
    LET now == cx.turn
    IN Ret([eng EXCEPT !.change_dir = RampAfter(eng.change_dir, now),
                       !.change_spd = RampAfter(eng.change_spd, now),
                       !.accel_x = RampAfter(eng.accel_x, now),
                       !.accel_y = RampAfter(eng.accel_y, now)],
           RampCmd(eng.change_dir, now, "do_change_direction")
             \o RampCmd(eng.change_spd, now, "do_change_speed")
             \o RampCmd(eng.accel_x, now, "do_accel_x")
             \o RampCmd(eng.accel_y, now, "do_accel_y"))

\* ------------------------------------------------------------------------
\* run_sub: the body of `while let Some(act) = self.act`.

RefTable(bml, kind) ==
    IF kind = "BulletRef" THEN bml.bullet_refs
    ELSE IF kind = "ActionRef" THEN bml.action_refs
    ELSE bml.fire_refs

IsRefKind(kind) == kind \in {"BulletRef", "ActionRef", "FireRef"}

\* The expressions the handler of node act evaluates.
EvaluatedBy(arena, act) ==
    LET node == arena[act]
        Of(m) == LET c == get_first_child_id_matching(arena, act, m)
                    IN IF IsNone(c) THEN {} ELSE {arena[Unwrap(c)].expr}
        both(a, b) == IF a = {} \/ b = {} THEN {} ELSE a \cup b
    IN IF node.kind \in {"Bullet", "Fire"} THEN Of(match_speed) \cup Of(match_direction)
       ELSE IF node.kind = "Wait" THEN {node.expr}
       ELSE IF node.kind = "Repeat" THEN Of(match_times)
       ELSE IF IsRefKind(node.kind)
            THEN {arena[c].expr : c \in {d \in ChildSet(arena, act) : arena[d].kind = "Param"}}
       ELSE IF node.kind = "ChangeDirection" THEN both(Of(match_term), Of(match_direction))
       ELSE IF node.kind = "ChangeSpeed" THEN both(Of(match_term), Of(match_speed))
       ELSE IF node.kind = "Accel"
            THEN IF Of(match_term) = {} THEN {}
                 ELSE Of(match_term) \cup Of(match_horizontal) \cup Of(match_vertical)
       ELSE {}

\* The handler of node act panics: an index outside a label table or the
\* parameter list, or the unwrap of a repeat's missing action.
NodePanics(eng, act, cx) ==
    LET arena == cx.bml.arena
        node == arena[act]
    IN \/ IsRefKind(node.kind)
          /\ Unwrap(node.label) \notin DOMAIN RefTable(cx.bml, node.kind)
       \/ \E x \in EvaluatedBy(arena, act) : ~EvalOk(x, eng.parameters)
       \/ /\ node.kind = "Repeat"
          /\ IsSome(get_first_child_id_matching(arena, act, match_times))
          /\ IsNone(get_first_child_id_matching(arena, act, match_any_action))

\* The match on the node's kind.
ExecNode(eng, act, cx) ==
    LET node == cx.bml.arena[act]
    IN IF node.kind = "Bullet" THEN run_bullet(eng, cx)
       ELSE IF node.kind = "Action" THEN run_action(eng, cx)
       ELSE IF node.kind = "Fire" THEN run_fire(eng, cx)
       ELSE IF node.kind = "ChangeDirection" THEN run_change_direction(eng, cx)
       ELSE IF node.kind = "ChangeSpeed" THEN run_change_speed(eng, cx)
       ELSE IF node.kind = "Accel" THEN run_accel(eng, cx)
       ELSE IF node.kind = "Wait" THEN run_wait(eng, node.expr, cx)
       ELSE IF node.kind = "Repeat" THEN run_repeat(eng, act, cx)
       ELSE IF IsRefKind(node.kind)
            THEN run_ref(eng, act, RefTable(cx.bml, node.kind)[Unwrap(node.label)], cx)
       ELSE IF node.kind = "Vanish" THEN run_vanish(eng, cx)
       ELSE Ret(eng, <<>>)

\* A faulty unstack: the reference is popped, the parameters are not put back.
UnstackKeepingParameters(eng, prev) ==
    IF IsNone(eng.act) /\ eng.ref_stack # <<>> /\ Last(eng.ref_stack).ref_id = prev
    THEN [eng |-> [eng EXCEPT !.ref_stack = Front(eng.ref_stack)],
          prev |-> Last(eng.ref_stack).prev]
    ELSE [eng |-> eng, prev |-> prev]

\* "Unstack reference if needed": the engine and prev after it.
\* A faulty unstacking: the walk goes on from the definition.
UnstackAtDefinition(eng, prev) ==
    IF IsNone(eng.act) /\ eng.ref_stack # <<>> /\ Last(eng.ref_stack).ref_id = prev
    THEN [eng |-> [eng EXCEPT !.ref_stack = Front(eng.ref_stack),
                              !.parameters = Last(eng.ref_stack).prev_parameters],
          prev |-> prev]
    ELSE [eng |-> eng, prev |-> prev]

Unstack(eng, prev) ==
    IF IsNone(eng.act) /\ eng.ref_stack # <<>> /\ Last(eng.ref_stack).ref_id = prev
    THEN [eng |-> [eng EXCEPT !.ref_stack = Front(eng.ref_stack),
                              !.parameters = Last(eng.ref_stack).prev_parameters],
          prev |-> Last(eng.ref_stack).prev]
    ELSE [eng |-> eng, prev |-> prev]

\* "Jump to next sibling if any".
\* A faulty step to the next sibling: the root cursors are not looked at.
JumpSiblingPastRoot(eng, prev, arena) ==
    IF IsNone(eng.act)
    THEN [eng EXCEPT !.act = next_sibling(arena, prev)]
    ELSE eng

JumpSibling(eng, prev, arena) ==
    IF IsNone(eng.act) /\ prev \notin eng.root_nodes
    THEN [eng EXCEPT !.act = next_sibling(arena, prev)]
    ELSE eng

\* The test of an unfinished Repeat, after rep.iter += 1.
RepeatUnfinished(rep) == rep.iter < rep.end

\* The inner `loop` of run_sub, from prev.  Yields the engine and whether the
\* loop panicked (no parent, or an empty repeat stack under a Repeat).
RECURSIVE Climb(_, _, _)
Climb(eng, prev, arena) ==
    LET u == Unstack(eng, prev)
        e == JumpSibling(u.eng, u.prev, arena)
        par == parent(arena, u.prev)
    IN IF IsSome(e.act) \/ u.prev \in e.root_nodes THEN [eng |-> e, panic |-> FALSE]
       ELSE IF IsNone(par) THEN [eng |-> e, panic |-> TRUE]
       ELSE IF arena[Unwrap(par)].kind = "Repeat"
            THEN IF e.repeat_stack = <<>> THEN [eng |-> e, panic |-> TRUE]
                 ELSE LET rep == [Last(e.repeat_stack) EXCEPT !.iter = @ + 1]
                      IN IF RepeatUnfinished(rep)
                         THEN [eng |-> [e EXCEPT
                                          !.repeat_stack = Append(Front(e.repeat_stack), rep),
                                          !.act = Some(rep.act)],
                               panic |-> FALSE]
                         ELSE Climb([e EXCEPT !.repeat_stack = Front(e.repeat_stack)],
                                    Unwrap(par), arena)
       ELSE Climb(e, Unwrap(par), arena)

\* One pass of the while loop on the active node: the engine, the commands
\* issued and whether it panicked.  x is what the match on the node yielded,
\* c what the inner loop yielded after it.
Passed(x, c) == [eng |-> c.eng, cmds |-> x.cmds, panic |-> c.panic]

ThenClimb(x, act, arena) == Passed(x, Climb(x.eng, act, arena))

RunSubStep(eng, cx) ==
    IF NodePanics(eng, Unwrap(eng.act), cx)
    THEN [eng |-> eng, cmds |-> <<>>, panic |-> TRUE]
    ELSE ThenClimb(ExecNode(eng, Unwrap(eng.act), cx), Unwrap(eng.act), cx.bml.arena)

\* A faulty end condition: live ramps are not looked at.
EndIgnoringRamps(eng) == ~is_turn_end(eng)

\* The condition under which run marks the engine ended when it has no
\* active node.
EndCondition(eng) ==
    /\ ~is_turn_end(eng)
    /\ IsNone(eng.change_dir) /\ IsNone(eng.change_spd)
    /\ IsNone(eng.accel_x) /\ IsNone(eng.accel_y)

\* run, up to the call of run_sub.  c is what changes yielded, e1 the engine
\* after end_turn was set; sub tells whether run_sub is entered.
Entered(c, e1, cx) ==
    IF IsNone(e1.act)
    THEN [eng |-> IF EndCondition(e1) THEN [e1 EXCEPT !.end = TRUE] ELSE e1,
          cmds |-> c.cmds, sub |-> FALSE]
    ELSE [eng |-> [e1 EXCEPT !.act = Some(e1.nodes[e1.act_iter]),
                             !.act_turn = IF IsNone(e1.act_turn) THEN Some(cx.turn)
                                          ELSE e1.act_turn],
          cmds |-> c.cmds, sub |-> TRUE]

AfterChanges(c, cx) == Entered(c, [c.eng EXCEPT !.end_turn = cx.turn], cx)

\* A faulty run: the test of is_end is missing.
RunEnterAlways(eng, cx) == AfterChanges(changes(eng, cx), cx)

RunEnter(eng, cx) ==
    IF is_end(eng) THEN [eng |-> eng, cmds |-> <<>>, sub |-> FALSE]
    ELSE AfterChanges(changes(eng, cx), cx)

\* A faulty end of run: the engine goes to its next root cursor even when the
\* current one is suspended.
RunLeaveSkipping(eng) ==
    IF eng.act_iter < Len(eng.nodes)
    THEN [eng EXCEPT !.nodes[eng.act_iter] = IF IsSome(eng.act) THEN Unwrap(eng.act) ELSE @,
                     !.act_iter = @ + 1,
                     !.act = Some(eng.nodes[eng.act_iter + 1])]
    ELSE IF IsNone(eng.act) THEN [eng EXCEPT !.act_iter = @ + 1]
    ELSE [eng EXCEPT !.nodes[eng.act_iter] = Unwrap(eng.act)]

\* A faulty end of run: a suspended cursor is not written back to nodes.
RunLeaveForgetting(eng) ==
    IF IsNone(eng.act)
    THEN LET e1 == [eng EXCEPT !.act_iter = @ + 1]
         IN IF e1.act_iter <= Len(e1.nodes)
            THEN [e1 EXCEPT !.act = Some(e1.nodes[e1.act_iter])]
            ELSE e1
    ELSE eng

\* run, after run_sub returned.
\* A faulty end of run: after the last root cursor the engine starts again at
\* the first.
RunLeaveAround(eng) ==
    IF IsNone(eng.act)
    THEN LET e1 == [eng EXCEPT !.act_iter = @ + 1]
         IN IF e1.act_iter <= Len(e1.nodes)
            THEN [e1 EXCEPT !.act = Some(e1.nodes[e1.act_iter])]
            ELSE [e1 EXCEPT !.act_iter = 1, !.act = Some(e1.nodes[1])]
    ELSE [eng EXCEPT !.nodes[eng.act_iter] = Unwrap(eng.act)]

RunLeave(eng) ==
    IF IsNone(eng.act)
    THEN LET e1 == [eng EXCEPT !.act_iter = @ + 1]
         IN IF e1.act_iter <= Len(e1.nodes)
            THEN [e1 EXCEPT !.act = Some(e1.nodes[e1.act_iter])]
            ELSE e1
    ELSE [eng EXCEPT !.nodes[eng.act_iter] = Unwrap(eng.act)]

\* ------------------------------------------------------------------------
\* The uninterrupted walk.  obs.flat is a second engine, created from the
\* same State, that makes the passes of the while loop of run_sub one after
\* the other with the same host answers, never stops at a frame boundary,
\* takes every wait as 0, and goes on to its next root cursor as soon as one
\* is exhausted.

\* One pass of the while loop on node act, a wait counting as 0.
FlatPass(sh, act, cx) ==
    IF cx.bml.arena[act].kind = "Wait"
    THEN ThenClimb(Ret([sh EXCEPT !.act = None], <<>>), act, cx.bml.arena)
    ELSE RunSubStep(sh, cx)

\* The next root cursor when the current one is exhausted.
FlatLeave(sh) ==
    IF IsSome(sh.act) THEN sh
    ELSE IF sh.act_iter + 1 <= Len(sh.nodes)
         THEN [sh EXCEPT !.act_iter = @ + 1, !.act = Some(sh.nodes[sh.act_iter + 1])]
    ELSE [sh EXCEPT !.act_iter = @ + 1]

\* The uninterrupted walk after its pass res, and whether the pass issued
\* the commands out.
FlatCompare(res, out) == [eng |-> FlatLeave(res.eng), ok |-> ~res.panic /\ res.cmds = out]

\* The uninterrupted walk after the engine executed node act and issued out,
\* and whether it was at act as well and issued the same commands.
FlatNext(sh, act, out, cx) ==
    IF sh.act # Some(act) THEN [eng |-> sh, ok |-> FALSE]
    ELSE FlatCompare(FlatPass(sh, act, cx), out)

WithFlat(o, f) == [o EXCEPT !.flat = f.eng, !.flat_ok = @ /\ f.ok]

\* ------------------------------------------------------------------------
\* The observer: what each step adds to the history of an engine.

\* The nodes the walk goes to from node n: the children of an action, the
\* bullet of a fire, the body of a repeat, the definition of a reference.
WalkNext(bml, n) ==
    LET node == bml.arena[n]
        One(o) == IF IsNone(o) THEN {} ELSE {Unwrap(o)}
    IN IF node.kind = "Action" THEN ChildSet(bml.arena, n)
       ELSE IF node.kind = "Fire"
            THEN One(get_first_child_id_matching(bml.arena, n, match_any_bullet))
       ELSE IF node.kind = "Repeat"
            THEN IF IsNone(get_first_child_id_matching(bml.arena, n, match_times)) THEN {}
                 ELSE One(get_first_child_id_matching(bml.arena, n, match_any_action))
       ELSE IF IsRefKind(node.kind)
            THEN IF Unwrap(node.label) \in DOMAIN RefTable(bml, node.kind)
                 THEN {RefTable(bml, node.kind)[Unwrap(node.label)]} ELSE {}
       ELSE {}

\* Every node a complete walk from n executes.
RECURSIVE WalkOf(_, _)
WalkOf(bml, n) == {n} \cup UNION {WalkOf(bml, c) : c \in WalkNext(bml, n)}

\* The index in roots of the root above node n (n itself included), 0 if none.
RECURSIVE RootIndex(_, _, _)
RootIndex(arena, n, roots) ==
    IF \E i \in 1..Len(roots) : roots[i] = n
    THEN CHOOSE i \in 1..Len(roots) : roots[i] = n
    ELSE IF IsNone(arena[n].parent) THEN 0
    ELSE RootIndex(arena, Unwrap(arena[n].parent), roots)

HasChild(arena, n, m) == IsSome(get_first_child_id_matching(arena, n, m))
ChildOf(arena, n, m) == arena[Unwrap(get_first_child_id_matching(arena, n, m))]

\* The ramp a change node is expected to drive, anchored at the frame's turn.
Expect(f, term, turn) ==
    IF term >= 1 /\ IsSome(f)
    THEN Some([t |-> turn, term |-> term, first |-> Unwrap(f).first_y,
               last |-> Unwrap(f).last_y])
    ELSE None

\* The calls the expected ramp x makes in the frame of turn `turn`.
Expected(x, turn) ==
    IF IsNone(x) THEN <<>>
    ELSE LET r == Unwrap(x)
         IN IF turn <= r.t \/ turn > r.t + r.term THEN <<>>
            ELSE IF turn = r.t + r.term THEN << Frac(r.last, 1) >>
            ELSE << Frac(r.first * r.term + (r.last - r.first) * (turn - r.t), r.term) >>

ExpectAfter(x, turn) ==
    IF IsSome(x) /\ turn >= Unwrap(x).t + Unwrap(x).term THEN None ELSE x

Issued(out, op) ==
    LET sel == SelectSeq(out, LAMBDA c : c.op = op)
    IN [i \in 1..Len(sel) |-> sel[i].v]

RampOps == [dir |-> "do_change_direction", spd |-> "do_change_speed",
            x |-> "do_accel_x", y |-> "do_accel_y"]

NoRamp(eng) ==
    IsNone(eng.change_dir) /\ IsNone(eng.change_spd)
      /\ IsNone(eng.accel_x) /\ IsNone(eng.accel_y)

\* The history after the engine went from eng to res.eng in RunEnter.
ObserveEnter(eng, res, cx) ==
    LET o == eng.obs
        ks == {"dir", "spd", "x", "y"}
        fin == {k \in ks : IsSome(o.ramp[k])
                           /\ cx.turn = Unwrap(o.ramp[k]).t + Unwrap(o.ramp[k]).term
                           /\ Issued(res.cmds, RampOps[k]) = Expected(o.ramp[k], cx.turn)}
    IN IF eng.end THEN o
       ELSE [o EXCEPT
               !.queried = Some(cx.turn),
               !.calls = @ \o SelectSeq(res.cmds,
                             LAMBDA c : \E k \in ks : c.op = RampOps[k]),
               !.ramp_ok = @ /\ \A k \in ks :
                                  Issued(res.cmds, RampOps[k]) = Expected(o.ramp[k], cx.turn),
               !.ramp_fin = @ \cup fin,
               !.ramp = [k \in ks |-> ExpectAfter(o.ramp[k], cx.turn)],
               !.ended_at = IF res.eng.end THEN Some(cx.turn) ELSE @,
               !.end_cmds = IF res.eng.end THEN Len(res.cmds) ELSE @,
               !.missed = @ \/ (/\ IsSome(o.exhausted_at)
                                /\ ActTurnOr0(eng) <= cx.turn
                                /\ NoRamp(res.eng)
                                /\ ~res.eng.end)]

\* The history after run_sub returned and run finished with engine eng2.
ObserveLeave(eng2, cx) ==
    LET o == [eng2.obs EXCEPT
                !.root_left = IF eng2.act_iter - 1 > Len(@) THEN Append(@, cx.turn)
                              ELSE @]
    IN IF IsNone(eng2.act)
       THEN [o EXCEPT !.exhausted_at = Some(cx.turn),
                      !.quiet = NoRamp(eng2) /\ ActTurnOr0(eng2) <= cx.turn]
       ELSE o

\* The history after the engine executed node act and went from eng to eng2.
ObserveStep(eng, eng2, act, out, cx) ==
    LET o == eng.obs
        arena == cx.bml.arena
        node == arena[act]
        Val(e) == get_number_contents(e, eng.parameters, cx)
        entry == IF eng.ref_stack = <<>> THEN act ELSE eng.ref_stack[1].prev
        ri == RootIndex(arena, entry, o.roots)
        refs1 == IF IsRefKind(node.kind)
                 THEN Append(o.refs, [before |-> eng.parameters, turn |-> cx.turn])
                 ELSE o.refs
        k == Len(eng2.ref_stack)
        reps1 == IF o.reps # <<>> /\ eng.repeat_stack # <<>>
                    /\ Last(eng.repeat_stack).act = act
                 THEN [o.reps EXCEPT ![Len(o.reps)].cnt = @ + 1]
                 ELSE o.reps
        reps2 == IF node.kind = "Repeat" /\ HasChild(arena, act, match_times)
                 THEN Append(reps1, [n |-> as_u32(Val(ChildOf(arena, act, match_times).expr)),
                                     cnt |-> 0, turn |-> cx.turn])
                 ELSE reps1
        m == Len(eng2.repeat_stack)
        waitn == IF node.kind = "Wait" THEN as_u32(Val(node.expr)) ELSE 0
        term == IF HasChild(arena, act, match_term)
                THEN as_u32(Val(ChildOf(arena, act, match_term).expr)) ELSE 0
        hasX == IF eng.bml_type = "Horizontal" THEN HasChild(arena, act, match_vertical)
                ELSE HasChild(arena, act, match_horizontal)
        hasY == IF eng.bml_type = "Horizontal" THEN HasChild(arena, act, match_horizontal)
                ELSE HasChild(arena, act, match_vertical)
        fireSpd == IF HasChild(arena, act, match_speed)
                   THEN Some(get_speed(eng, ChildOf(arena, act, match_speed).ty,
                                       ChildOf(arena, act, match_speed).expr, cx).v)
                   ELSE None
        fireDir == IF HasChild(arena, act, match_direction)
                   THEN Some(get_direction(eng, ChildOf(arena, act, match_direction).ty,
                                           ChildOf(arena, act, match_direction).expr, cx).v)
                   ELSE None
        wantSpd == IF IsSome(fireSpd) THEN [v |-> Unwrap(fireSpd), src |-> "bullet"]
                   ELSE IF IsSome(o.fire.spd) THEN [v |-> Unwrap(o.fire.spd), src |-> "fire"]
                   ELSE [v |-> cx.h.default_speed, src |-> "default"]
        wantDir == IF IsSome(fireDir) THEN [v |-> Unwrap(fireDir), src |-> "bullet"]
                   ELSE IF IsSome(o.fire.dir) THEN [v |-> Unwrap(o.fire.dir), src |-> "fire"]
                   ELSE [v |-> cx.h.aim_direction, src |-> "default"]
    IN [o EXCEPT
          !.executed = @ \cup {act},
          !.ran = IF Ran(o, act) < MaxRan THEN Append(@, act) ELSE @,
          !.root_max = IF ri > @ THEN ri ELSE @,
          !.root_ok = @ /\ ri >= o.root_max
                        /\ \A i \in 1..(ri - 1) : WalkOf(cx.bml, o.roots[i]) \subseteq o.executed,
          !.refs = IF k < Len(refs1) THEN SubSeq(refs1, 1, k) ELSE refs1,
          !.ref_done = IF k < Len(refs1)
                       THEN Append(@, [before |-> refs1[k + 1].before,
                                       after |-> eng2.parameters,
                                       depth |-> Len(refs1),
                                       frames |-> cx.turn - refs1[k + 1].turn,
                                       reps |-> Len(eng.repeat_stack)])
                       ELSE @,
          !.reps = IF m < Len(reps2) THEN SubSeq(reps2, 1, m) ELSE reps2,
          !.rep_done = IF m < Len(reps2)
                       THEN [i \in 1..(Len(reps2) - m) |->
                               [n |-> reps2[m + i].n, cnt |-> reps2[m + i].cnt,
                                frames |-> cx.turn - reps2[m + i].turn]]
                       ELSE @,
          !.resumed = IF IsSome(o.wake)
                      THEN Some([wake |-> Unwrap(o.wake), at |-> cx.turn, root |-> ri])
                      ELSE @,
          !.wake = IF waitn >= 1 THEN Some(cx.turn + waitn) ELSE None,
          !.ramp = IF node.kind = "ChangeDirection" /\ HasChild(arena, act, match_term)
                      /\ HasChild(arena, act, match_direction)
                   THEN [@ EXCEPT !.dir = Expect(eng2.change_dir, term, cx.turn)]
                   ELSE IF node.kind = "ChangeSpeed" /\ HasChild(arena, act, match_term)
                           /\ HasChild(arena, act, match_speed)
                   THEN [@ EXCEPT !.spd = Expect(eng2.change_spd, term, cx.turn)]
                   ELSE IF node.kind = "Accel" /\ HasChild(arena, act, match_term)
                   THEN [@ EXCEPT
                           !.x = IF hasX
                                 THEN Expect(eng2.accel_x, term, cx.turn) ELSE @,
                           !.y = IF hasY
                                 THEN Expect(eng2.accel_y, term, cx.turn) ELSE @]
                   ELSE @,
          !.fire = IF node.kind = "Fire" THEN [spd |-> fireSpd, dir |-> fireDir] ELSE @,
          !.spawn = IF node.kind = "Bullet"
                    THEN Some([speed |-> out[1].speed, direction |-> out[1].direction,
                               want_speed |-> wantSpd.v, want_direction |-> wantDir.v,
                               src_speed |-> wantSpd.src, src_direction |-> wantDir.src])
                    ELSE @]

\* ------------------------------------------------------------------------
\* The state.

RankVals == 0..Denom
RandVals == {0, 1}

\* The documents and the answers of get_rank / get_rand used by the host that
\* keeps a record.
TwinDocs == {1, 11}
TwinInputs == { <<0, 0>>, <<0, 1>>, <<Denom, 0>> }

HostVals ==
    [bullet_direction : {0, Deg(350)},
     aim_direction : {0, Deg(90)},
     bullet_speed : {1 * Denom},
     default_speed : {10 * Denom},
     bullet_speed_x : {0},
     bullet_speed_y : {0}]

Cx(r) ==
    [bml |-> Docs[doc], turn |-> rs[r].turn, rank |-> rank, rand |-> rand, h |-> host]

Eng(r, e) == rs[r].runners[e]

\* struct Runner: the engines, and beside them what its host capability
\* holds: the turn it answers to get_turn, the number of calls of
\* AppRunner::init it received, and a history: how many times the Runner was
\* created or reused (made) and what it was like when last reused (was).
Runner(runners) ==
    [runners |-> runners, turn |-> 0, inits |-> 0, made |-> 1, was |-> None]

\* The host creates one Runner with Runner::new on the chosen document.
Init ==
    /\ doc \in 1..Len(Arenas)
    /\ host \in HostVals
    /\ rank \in RankVals
    /\ rand \in RandVals
    /\ rs = << Runner(RunnerNew(Docs[doc])) >>
    /\ pc = "idle"
    /\ cur = <<0, 0>>
    /\ cmds = <<>>
    /\ log = <<>>
    /\ job = None

\* The host creates two Runners with Runner::new on the same document and
\* keeps a record of the frames of both.
InitTwin ==
    /\ doc \in TwinDocs
    /\ host \in HostVals
    /\ rank = 0
    /\ rand = 0
    /\ rs = << Runner(RunnerNew(Docs[doc])), Runner(RunnerNew(Docs[doc])) >>
    /\ pc = "idle"
    /\ cur = <<0, 0>>
    /\ cmds = <<>>
    /\ log = << <<>>, <<>> >>
    /\ job = None

\* What the host answers to get_rank and get_rand in a frame, and the turn at
\* which it stops: a host that keeps a record runs fewer frames.
Inputs == IF log = <<>> THEN RankVals \X RandVals ELSE TwinInputs
TurnBound == IF log = <<>> THEN MaxTurn ELSE MaxTwinTurn

\* The record of a frame of runner r whose commands were out.
Frame(r, out) == [turn |-> rs[r].turn, rank |-> rank, rand |-> rand, out |-> out]

Logged(r, out) == IF r <= Len(log) THEN [log EXCEPT ![r] = Append(@, Frame(r, out))] ELSE log

\* The Runners after engine e of runner r became eng, and after the host
\* built a Runner with Runner::new_from_state for each State of create_bullet
\* in out (while it has room for one).
RECURSIVE Spawned(_, _)
Spawned(list, out) ==
    IF out = <<>> THEN list
    ELSE IF out[1].op = "create_bullet" /\ Len(list) < MaxRunners
         THEN Spawned(Append(list, Runner(RunnerNewFromState(out[1].state))),
                      Tail(out))
    ELSE Spawned(list, Tail(out))

\* A faulty write-back: the engine that was run is stored in the first slot.
PutFirst(r, e, eng, out) == Spawned([rs EXCEPT ![r].runners[1] = eng], out)

Put(r, e, eng, out) == Spawned([rs EXCEPT ![r].runners[e] = eng], out)

Tagged(e, out) == [i \in 1..Len(out) |-> [e |-> e, c |-> out[i]]]

\* The for loop of Runner::run goes to the next engine, or the call returns
\* (out is what it commanded) and the host goes to its next turn.
\* A faulty Runner::run: the loop is left at the first engine that has ended.
AdvanceUntilEnded(list, r, e, out) ==
    IF e < Len(list[r].runners) /\ ~is_end(list[r].runners[e])
    THEN /\ cur' = <<r, e + 1>>
         /\ pc' = "run"
         /\ rs' = list
         /\ log' = log
    ELSE /\ cur' = <<0, 0>>
         /\ pc' = "idle"
         /\ rs' = [list EXCEPT ![r].turn = @ + 1]
         /\ log' = Logged(r, out)

Advance(list, r, e, out) ==
    IF e < Len(list[r].runners)
    THEN /\ cur' = <<r, e + 1>>
         /\ pc' = "run"
         /\ rs' = list
         /\ log' = log
    ELSE /\ cur' = <<0, 0>>
         /\ pc' = "idle"
         /\ rs' = [list EXCEPT ![r].turn = @ + 1]
         /\ log' = Logged(r, out)

\* The host calls Runner::run on runner r.
HostRun(r) ==
    /\ pc = "idle"
    /\ rs[r].turn < TurnBound
    /\ \E draw \in Inputs : rank' = draw[1] /\ rand' = draw[2]
    /\ cmds' = <<>>
    /\ IF rs[r].runners = <<>>
       THEN /\ rs' = [rs EXCEPT ![r].turn = @ + 1]
            /\ UNCHANGED <<pc, cur>>
       ELSE /\ pc' = "run"
            /\ cur' = <<r, 1>>
            /\ UNCHANGED rs
    /\ UNCHANGED <<doc, host, log, job>>

\* RunnerImpl::run on the current engine, up to run_sub.
EngineRunTo(r, e, res, eng2) ==
    /\ cmds' = cmds \o Tagged(e, res.cmds)
    /\ IF res.sub
       THEN /\ pc' = "sub"
            /\ rs' = [rs EXCEPT ![r].runners[e] = eng2]
            /\ UNCHANGED <<cur, log>>
       ELSE Advance([rs EXCEPT ![r].runners[e] = eng2], r, e, cmds \o Tagged(e, res.cmds))

EngineRunWith(r, e, eng, res) ==
    EngineRunTo(r, e, res, [res.eng EXCEPT !.obs = ObserveEnter(eng, res, Cx(r))])

EngineRun ==
    /\ pc = "run"
    /\ EngineRunWith(cur[1], cur[2], Eng(cur[1], cur[2]),
                     RunEnter(Eng(cur[1], cur[2]), Cx(cur[1])))
    /\ UNCHANGED <<doc, host, rank, rand, job>>

\* One pass of the while loop of run_sub: the active node is executed.
SubStepWith(r, e, eng, res) ==
    IF res.panic
    THEN /\ pc' = "panic"
         /\ UNCHANGED <<rs, cmds>>
    ELSE /\ pc' = "sub"
         /\ rs' = Put(r, e,
                      [res.eng EXCEPT
                         !.obs = WithFlat(
                             ObserveStep(eng, res.eng, Unwrap(eng.act), res.cmds, Cx(r)),
                             FlatNext(eng.obs.flat, Unwrap(eng.act), res.cmds, Cx(r)))],
                      res.cmds)
         /\ cmds' = cmds \o Tagged(e, res.cmds)

SubStep ==
    /\ pc = "sub"
    /\ IsSome(Eng(cur[1], cur[2]).act)
    /\ ~is_turn_end(Eng(cur[1], cur[2]))
    /\ SubStepWith(cur[1], cur[2], Eng(cur[1], cur[2]),
                   RunSubStep(Eng(cur[1], cur[2]), Cx(cur[1])))
    /\ UNCHANGED <<doc, host, rank, rand, cur, log, job>>

\* The while loop of run_sub ends; run finishes.
Left(left, cx) == [left EXCEPT !.obs = ObserveLeave(left, cx)]

SubDone ==
    /\ pc = "sub"
    /\ IsNone(Eng(cur[1], cur[2]).act) \/ is_turn_end(Eng(cur[1], cur[2]))
    /\ Advance([rs EXCEPT ![cur[1]].runners[cur[2]] =
                   Left(RunLeave(Eng(cur[1], cur[2])), Cx(cur[1]))],
               cur[1], cur[2], cmds)
    /\ UNCHANGED <<doc, host, rank, rand, cmds, job>>

Next ==
    \/ \E r \in 1..Len(rs) : HostRun(r)
    \/ EngineRun
    \/ SubStep
    \/ SubDone

Spec == Init /\ [][Next]_vars

\* The same host keeping a record of two Runners of one document.
SpecTwin == InitTwin /\ [][Next]_vars

\* ------------------------------------------------------------------------
\* Reuse of a Runner: Runner::init and Runner::init_from_state.

\* The documents the host that reuses its Runners starts with, and those it
\* may give to Runner::init in place of the current one.
ReuseStart == {1, 3, 4}
ReuseDocs == {2}

\* The host creates one Runner with Runner::new and will reuse it.
InitReuse ==
    /\ doc \in ReuseStart
    /\ host \in {h \in HostVals : h.bullet_direction = 0 /\ h.aim_direction = 0}
    /\ rank = 0
    /\ rand = 0
    /\ rs = << Runner(RunnerNew(Docs[doc])) >>
    /\ pc = "idle"
    /\ cur = <<0, 0>>
    /\ cmds = <<>>
    /\ log = <<>>
    /\ job = None

\* What the engines of a Runner are like, kept as history when it is reused.
Was(runners) ==
    [waiting |-> \E e \in 1..Len(runners) :
                    /\ ~runners[e].end /\ IsSome(runners[e].act)
                    /\ IsSome(runners[e].act_turn)
                    /\ Unwrap(runners[e].act_turn) > runners[e].end_turn,
     looping |-> \E e \in 1..Len(runners) : runners[e].repeat_stack # <<>>,
     inside |-> \E e \in 1..Len(runners) : runners[e].ref_stack # <<>>,
     ramping |-> \E e \in 1..Len(runners) : ~NoRamp(runners[e]),
     params |-> \E e \in 1..Len(runners) : runners[e].parameters # <<>>,
     ended |-> \E e \in 1..Len(runners) : runners[e].end]

\* A faulty reuse: the engines of before are kept and the new ones added.
ReusedKeeping(rn, runners) ==
    [rn EXCEPT !.runners = @ \o runners, !.inits = @ + 1, !.made = @ + 1,
               !.was = Some(Was(rn.runners))]

\* self.runners.clear(), the push of the new engines, self.app_runner.init().
Reused(rn, runners) ==
    [rn EXCEPT !.runners = runners, !.inits = @ + 1, !.made = @ + 1,
               !.was = Some(Was(rn.runners))]

\* The host calls Runner::init on runner r with document d; from then on it
\* passes d to run, which it can do when no other Runner lives on the old one.
HostInit(r, d) ==
    /\ pc = "idle"
    /\ rs[r].made <= MaxReuse
    /\ rs[r].turn <= MaxReuseTurn
    /\ d = doc \/ Len(rs) = 1
    /\ doc' = d
    /\ rs' = [rs EXCEPT ![r] = Reused(@, RunnerNew(Docs[d]))]
    /\ UNCHANGED <<host, rank, rand, pc, cur, cmds, log, job>>

\* The host calls Runner::init_from_state on runner r with the State of the
\* i-th command of the last run call.
HostInitFromState(r, i) ==
    /\ pc = "idle"
    /\ rs[r].made <= MaxReuse
    /\ rs[r].turn <= MaxReuseTurn
    /\ cmds[i].c.op = "create_bullet"
    /\ rs' = [rs EXCEPT ![r] = Reused(@, RunnerNewFromState(cmds[i].c.state))]
    /\ UNCHANGED <<doc, host, rank, rand, pc, cur, cmds, log, job>>

NextReuse ==
    \/ \E r \in 1..Len(rs) : HostRun(r)
    \/ EngineRun
    \/ SubStep
    \/ SubDone
    \/ \E d \in ReuseDocs \cup {doc} : HostInit(1, d)
    \/ \E i \in 1..Len(cmds) : HostInitFromState(1, i)

\* The host that also reuses the Runner it created first.
SpecReuse == InitReuse /\ [][NextReuse]_vars

\* ------------------------------------------------------------------------
\* BulletMLParser::parse.  A text is the sequence of its elements in document
\* order; an element has its tag name, the index of its parent element (0 for
\* the root element) and its label attribute.  The texts are well-formed XML
\* whose type attributes and expressions are valid, so that the errors left
\* are those of the structure.

Elem(name, p, label) == [name |-> name, parent |-> p, label |-> label]

\* The child elements of element i, in document order.
ElemChildren(xml, i) == SortedSeq({j \in 1..Len(xml) : xml[j].parent = i})

\* The arms of the match on the child's tag name in each parse_* function
\* that loops over child elements.
MatchArms ==
    [bulletml |-> {"bullet", "action", "fire"},
     bullet |-> {"direction", "speed", "action", "actionRef"},
     action |-> {"repeat", "fire", "fireRef", "changeSpeed", "changeDirection",
                 "accel", "wait", "vanish", "action", "actionRef"},
     fire |-> {"direction", "speed", "bullet", "bulletRef"},
     changeDirection |-> {"direction", "term"},
     changeSpeed |-> {"speed", "term"},
     accel |-> {"horizontal", "vertical", "term"},
     repeat |-> {"times", "action", "actionRef"},
     bulletRef |-> {"param"},
     actionRef |-> {"param"},
     fireRef |-> {"param"}]

\* The elements whose parse_* function calls parse_expression.
WithExpression ==
    {"wait", "direction", "speed", "horizontal", "vertical", "term", "times", "param"}

\* Result<_, ParseError>: the elements that became nodes, or the error with
\* the name it carries and the element whose position it carries.
ParseOk(nodes) == [ok |-> TRUE, err |-> "", name |-> "", at |-> 0, nodes |-> nodes]
ParseErr(err, name, at) ==
    [ok |-> FALSE, err |-> err, name |-> name, at |-> at, nodes |-> {}]

\* parse_expression: a child that is an element is an error; the text is valid.
parse_expression(xml, i) ==
    IF ElemChildren(xml, i) # <<>>
    THEN ParseErr("UnexpectedNodeType", "Element", ElemChildren(xml, i)[1])
    ELSE ParseOk({i})

\* parse_bulletml, parse_bullet, parse_action, ... on element i, whose name
\* the caller has matched: a reference returns at once without a label; a
\* function with a loop goes through the child elements (from the k-th on in
\* parse_children) and returns the first error; parse_vanish does not look at
\* the element; the others call parse_expression.
RECURSIVE parse_element(_, _)
RECURSIVE parse_children(_, _, _, _)
parse_element(xml, i) ==
    IF xml[i].name \in {"bulletRef", "actionRef", "fireRef"} /\ xml[i].label = None
    THEN ParseErr("MissingAttribute", "label", i)
    ELSE IF xml[i].name \in DOMAIN MatchArms
    THEN parse_children(xml, i, 1, {i})
    ELSE IF xml[i].name \in WithExpression
    THEN parse_expression(xml, i)
    ELSE ParseOk({i})

parse_children(xml, i, k, nodes) ==
    IF k > Len(ElemChildren(xml, i))
    THEN ParseOk(nodes)
    ELSE IF xml[ElemChildren(xml, i)[k]].name \notin MatchArms[xml[i].name]
    THEN ParseErr("UnexpectedElement", xml[ElemChildren(xml, i)[k]].name,
                  ElemChildren(xml, i)[k])
    ELSE IF ~parse_element(xml, ElemChildren(xml, i)[k]).ok
    THEN parse_element(xml, ElemChildren(xml, i)[k])
    ELSE parse_children(xml, i, k + 1,
                        nodes \cup parse_element(xml, ElemChildren(xml, i)[k]).nodes)

\* BulletMLParser::parse: the root element is to be bulletml.
parse(xml) ==
    IF xml[1].name = "bulletml"
    THEN parse_element(xml, 1)
    ELSE ParseErr("UnexpectedElement", xml[1].name, 1)

\* The texts: the tag names used, and the parents of n elements in document
\* order (the parent of an element is the element before it or one of that
\* element's ancestors).
Tags == {"bulletml", "action", "fire", "bullet", "actionRef", "vanish", "wait", "foo"}

RECURSIVE Ancestors(_, _)
Ancestors(ps, i) == IF i = 0 THEN {0} ELSE {i} \cup Ancestors(ps, ps[i])

RECURSIVE Shapes(_)
Shapes(n) ==
    IF n = 1 THEN { <<0>> }
    ELSE {Append(ps, q) : ps \in Shapes(n - 1), q \in 1..(n - 1)}

WellNested(ps) == \A j \in 2..Len(ps) : ps[j] \in Ancestors(ps, j - 1) \ {0}

Texts(n) ==
    {[i \in 1..n |-> Elem(nm[i], ps[i],
                          IF nm[i] = "actionRef" THEN Some(L_a) ELSE None)] :
        nm \in [1..n -> Tags], ps \in {q \in Shapes(n) : WellNested(q)}}

\* The host gives a text to the parser.
InitParse ==
    /\ job \in {[xml |-> x, res |-> None] : x \in UNION {Texts(n) : n \in 1..MaxElems}}
    /\ doc = 1
    /\ host \in {h \in HostVals : h.bullet_direction = 0 /\ h.aim_direction = 0}
    /\ rank = 0
    /\ rand = 0
    /\ rs = <<>>
    /\ pc = "parse"
    /\ cur = <<0, 0>>
    /\ cmds = <<>>
    /\ log = <<>>

\* BulletMLParser::parse returns.
Parse ==
    /\ pc = "parse"
    /\ job' = [job EXCEPT !.res = Some(parse(job.xml))]
    /\ pc' = "parsed"
    /\ UNCHANGED <<doc, host, rank, rand, rs, cur, cmds, log>>

NextParse == Parse

SpecParse == InitParse /\ [][NextParse]_vars

\* ------------------------------------------------------------------------
\* Properties.

Engines == {re \in (1..Len(rs)) \X (1..MaxRunners) : re[2] <= Len(rs[re[1]].runners)}
EngOf(re) == rs[re[1]].runners[re[2]]
ObsOf(re) == EngOf(re).obs

\* The host commands of the current Runner::run call that carry a direction.
SpawnOps == {"create_simple_bullet", "create_bullet"}
SpawnCmds == {i \in 1..Len(cmds) : cmds[i].c.op \in SpawnOps}
TurnCmds == {i \in 1..Len(cmds) : cmds[i].c.op = "do_change_direction"}

\* A fraction <<n, d>> (d > 0) lies in [0, 360).
FracInHalfOpen(v) == v[2] > 0 /\ v[1] >= 0 /\ v[1] < Deg(360) * v[2]

\* C1: a repeat whose times evaluates to v executes its body exactly
\* N = trunc(v) times per entry, for every N >= 0: while the repeat runs the
\* body has been entered at most N times, and when the repeat is left the
\* body has been entered exactly N times.
C1_RepeatRunsBodyNTimes ==
    \A re \in Engines :
        /\ \A i \in 1..Len(ObsOf(re).reps) : ObsOf(re).reps[i].cnt <= ObsOf(re).reps[i].n
        /\ \A i \in 1..Len(ObsOf(re).rep_done) :
              ObsOf(re).rep_done[i].cnt = ObsOf(re).rep_done[i].n

\* A repeat with N = 0 was entered and left, and its body ran once.
C1_ZeroTimesBodyRan ==
    \E re \in Engines : \E i \in 1..Len(ObsOf(re).rep_done) :
        ObsOf(re).rep_done[i].n = 0 /\ ObsOf(re).rep_done[i].cnt = 1

\* C2: when the subtree of a reference is exhausted the active parameter list
\* is the list that was active just before the reference was executed, at any
\* nesting depth, inside repeats and across waits; meanwhile every stacked
\* reference holds the list that was active before it.
C2_ParametersRestored ==
    \A re \in Engines :
        /\ \A i \in 1..Len(ObsOf(re).ref_done) :
              ObsOf(re).ref_done[i].after = ObsOf(re).ref_done[i].before
        /\ Len(EngOf(re).ref_stack) = Len(ObsOf(re).refs)
        /\ \A i \in 1..Len(ObsOf(re).refs) :
              EngOf(re).ref_stack[i].prev_parameters = ObsOf(re).refs[i].before

\* One engine has finished a reference nested three deep that restored a
\* non-empty list, a reference whose expansion waited over frames, and a
\* reference inside a repeat.
C2_NestedLoopedSuspended ==
    \E re \in Engines :
        /\ \E i \in 1..Len(ObsOf(re).ref_done) :
              ObsOf(re).ref_done[i].depth >= 3 /\ ObsOf(re).ref_done[i].before # <<>>
        /\ \E i \in 1..Len(ObsOf(re).ref_done) :
              ObsOf(re).ref_done[i].depth >= 2 /\ ObsOf(re).ref_done[i].frames >= 1
        /\ \E i \in 1..Len(ObsOf(re).ref_done) : ObsOf(re).ref_done[i].reps >= 1

\* C3: root cursors run in array order and never interleave: whenever a node
\* is executed it belongs to a root cursor not before the latest one started,
\* and every node of every earlier root cursor has been executed.
C3_RootCursorsInOrder == \A re \in Engines : ObsOf(re).root_ok

\* An engine with three root cursors, the first of which waited, has run all
\* three.
C3_ThreeRootsRun ==
    \E re \in Engines :
        /\ Len(ObsOf(re).roots) = 3
        /\ ObsOf(re).root_max = 3
        /\ IsSome(ObsOf(re).resumed) /\ Unwrap(ObsOf(re).resumed).at >= 2
        /\ \A i \in 1..3 : WalkOf(Docs[doc], ObsOf(re).roots[i]) \subseteq ObsOf(re).executed

\* C4: the node after a wait of n >= 1 executed in the frame of turn t is
\* executed in the frame of turn t + n, whichever root cursor the wait is in.
C4_WaitResumesAtWake ==
    \A re \in Engines :
        IsSome(ObsOf(re).resumed) =>
            Unwrap(ObsOf(re).resumed).at = Unwrap(ObsOf(re).resumed).wake

\* The node after a wait of a second root cursor ran before the wake turn.
C4_ResumedEarly ==
    \E re \in Engines :
        /\ IsSome(ObsOf(re).resumed)
        /\ Unwrap(ObsOf(re).resumed).root >= 2
        /\ Unwrap(ObsOf(re).resumed).at < Unwrap(ObsOf(re).resumed).wake

\* C5: a change node with term T >= 1 executed in the frame of turn t causes
\* exactly one call of its host mutation in each of the frames t+1 .. t+T,
\* with the interpolated value, the target value in frame t+T, and no call
\* in any other frame.
C5_RampCallsEachFrame == \A re \in Engines : ObsOf(re).ramp_ok

\* A frame of an engine with a change node in its second root cursor made
\* other calls than the ramp started at the change node's frame makes.
C5_RampOffByAFrame ==
    \E re \in Engines :
        /\ ~ObsOf(re).ramp_ok
        /\ ObsOf(re).root_max >= 2

\* C6: every direction passed to the host (create_simple_bullet,
\* create_bullet, do_change_direction) lies in [0, 360).
C6_DirectionsInHalfOpenRange ==
    /\ \A i \in SpawnCmds : cmds[i].c.direction >= 0 /\ cmds[i].c.direction < Deg(360)
    /\ \A i \in TurnCmds : FracInHalfOpen(cmds[i].c.v)

\* C6, as the code has it: the direction of every create_simple_bullet and
\* create_bullet lies in the closed range [0, 360].
C6_SpawnDirectionsInClosedRange ==
    \A i \in SpawnCmds : cmds[i].c.direction >= 0 /\ cmds[i].c.direction <= Deg(360)

\* The spawns of one frame carry the direction 360 and a direction brought
\* back from 370 to 10.
C6_SpawnAt360 ==
    /\ \E i \in SpawnCmds : cmds[i].c.direction = Deg(360)
    /\ \E i \in SpawnCmds : cmds[i].c.direction = Deg(10)

\* C7: an engine ends in the first frame after the frame that exhausted its
\* last root cursor in which the turn has reached the wake turn and no ramp
\* is live after the ramp update; never before.  With no trailing wait and
\* no ramp that is the next frame, and the frame issues no command.
C7_EndsAtFirstQuietFrame ==
    \A re \in Engines :
        /\ EngOf(re).end =>
              /\ IsSome(ObsOf(re).exhausted_at) /\ IsSome(ObsOf(re).ended_at)
              /\ IsNone(EngOf(re).act)
              /\ Unwrap(ObsOf(re).ended_at) > Unwrap(ObsOf(re).exhausted_at)
              /\ ActTurnOr0(EngOf(re)) <= Unwrap(ObsOf(re).ended_at)
              /\ NoRamp(EngOf(re))
              /\ ObsOf(re).quiet =>
                    /\ Unwrap(ObsOf(re).ended_at) = Unwrap(ObsOf(re).exhausted_at) + 1
                    /\ ObsOf(re).end_cmds = 0
        /\ IsSome(ObsOf(re).ended_at) => EngOf(re).end
        /\ ~ObsOf(re).missed

\* An engine whose last node was a wait and which had a ramp live ended
\* several frames after it was exhausted.
C7_EndedAfterRamp ==
    \E re \in Engines :
        /\ EngOf(re).end
        /\ ~ObsOf(re).quiet
        /\ ObsOf(re).ramp_fin # {}
        /\ Unwrap(ObsOf(re).ended_at) > Unwrap(ObsOf(re).exhausted_at) + 1

\* C8: the speed and the direction of a spawn are those of the bullet's own
\* child, else those the enclosing fire resolved in this execution of the
\* fire, else the host's default speed / aim direction.
C8_SpawnValuesResolved ==
    \A re \in Engines :
        IsSome(ObsOf(re).spawn) =>
            /\ Unwrap(ObsOf(re).spawn).speed = Unwrap(ObsOf(re).spawn).want_speed
            /\ Unwrap(ObsOf(re).spawn).direction = Unwrap(ObsOf(re).spawn).want_direction

\* After a fire that set a speed and a direction, a fire that sets none has
\* spawned with the host's values.
C8_DefaultAfterFireValues ==
    \E re \in Engines :
        /\ doc = 6
        /\ {3, 6, 7, 8} \subseteq ObsOf(re).executed
        /\ 9 \notin ObsOf(re).executed
        /\ IsSome(ObsOf(re).spawn)
        /\ Unwrap(ObsOf(re).spawn).src_speed = "default"
        /\ Unwrap(ObsOf(re).spawn).src_direction = "default"
        /\ EngOf(re).prev_spd.valid

\* C9: Runner::is_end is true exactly when at least one engine of the Runner
\* has ended, and is true in every state after an engine ended.
C9_IsEndIffSomeEngineEnded ==
    \A r \in 1..Len(rs) :
        /\ RunnerIsEnd(rs[r].runners) <=>
              \E e \in 1..Len(rs[r].runners) : rs[r].runners[e].end
        /\ (\E e \in 1..Len(rs[r].runners) : IsSome(rs[r].runners[e].obs.ended_at))
              => RunnerIsEnd(rs[r].runners)

\* A Runner with an ended engine followed by a running one.
C9_FirstEndedSecondRunning ==
    \E r \in 1..Len(rs) :
        /\ Len(rs[r].runners) = 2
        /\ rs[r].runners[1].end
        /\ ~rs[r].runners[2].end
        /\ IsSome(rs[r].runners[2].act)

\* The action children of the root whose label begins with "top", in
\* document order, stated on the arena.
TopActions(arena) ==
    SortedSeq({n \in 1..Len(arena) :
                  /\ arena[n].parent = Some(1)
                  /\ arena[n].kind = "Action"
                  /\ arena[n].label # None
                  /\ Len(arena[n].label[1]) >= 3
                  /\ arena[n].label[1][1] = "t"
                  /\ arena[n].label[1][2] = "o"
                  /\ arena[n].label[1][3] = "p"})

\* C10: Runner::new creates one engine for each action child of the root
\* whose label begins with "top", in document order, and no other; each has
\* that action as its single root cursor and the document's coordinate tag,
\* and before its first run it is at that action with an empty parameter
\* list and has not ended.
C10_OneEnginePerTopAction ==
    /\ Len(rs[1].runners) = Len(TopActions(Arenas[doc]))
    /\ \A i \in 1..Len(rs[1].runners) :
          /\ rs[1].runners[i].obs.roots = << TopActions(Arenas[doc])[i] >>
          /\ rs[1].runners[i].root_nodes = {TopActions(Arenas[doc])[i]}
          /\ rs[1].runners[i].bml_type = Arenas[doc][1].ty
          /\ (rs[1].turn = 0 /\ pc = "idle") =>
                /\ rs[1].runners[i].nodes = << TopActions(Arenas[doc])[i] >>
                /\ rs[1].runners[i].act = Some(TopActions(Arenas[doc])[i])
                /\ rs[1].runners[i].act_iter = 1
                /\ rs[1].runners[i].parameters = <<>>
                /\ ~rs[1].runners[i].end

\* Runner::new on a document with two "top" actions among seven children of
\* the root and a nested "top" action.
C10_TwoOfManyChildren ==
    /\ doc = 5
    /\ rs[1].turn = 0 /\ pc = "idle"
    /\ Len(rs[1].runners) = 2
    /\ rs[1].runners[1].nodes = <<2>>
    /\ rs[1].runners[2].nodes = <<9>>
    /\ rs[1].runners[2].bml_type = "Horizontal"

\* C11: once an engine has ended it stays ended: a later run call on it makes
\* no host query (the turn of its last query stays), issues no command, and
\* leaves its cursor, wake turn, ramps, stacks and parameter list as they are.
C11_EndedStaysEnded ==
    [][\A re \in Engines :
          EngOf(re).end =>
              /\ rs'[re[1]].runners[re[2]] = EngOf(re)
              /\ (cur = re => cmds' = cmds)]_vars

\* An ended engine was run again, in the frame after the one in which it
\* ended, in a Runner whose other engine is still running.
C11_RunAfterEnd ==
    \E re \in Engines :
        /\ EngOf(re).end
        /\ rs[re[1]].turn >= Unwrap(ObsOf(re).ended_at) + 2
        /\ Unwrap(ObsOf(re).queried) = Unwrap(ObsOf(re).ended_at)
        /\ \E e \in 1..Len(rs[re[1]].runners) :
              ~rs[re[1]].runners[e].end /\ IsSome(rs[re[1]].runners[e].act)

\* What the host answered in a recorded frame.
FrameIn(f) == <<f.turn, f.rank, f.rand>>

Running == pc \in {"sub", "panic"}
CurEng == rs[cur[1]].runners[cur[2]]
CurNode == Docs[doc].arena[Unwrap(CurEng.act)]

\* The running engine is at a reference whose label the table of its kind
\* does not hold.
AtDangling ==
    /\ Running /\ IsSome(CurEng.act)
    /\ CurNode.kind \in {"BulletRef", "ActionRef", "FireRef"}
    /\ \A n \in 1..Len(Docs[doc].arena) :
          \/ Docs[doc].arena[n].label # CurNode.label
          \/ Docs[doc].arena[n].kind \notin {"Bullet", "Action", "Fire"}
          \/ Docs[doc].arena[n].kind \o "Ref" # CurNode.kind

\* C13: executing a reference whose label is absent from the label table of
\* its kind is a failure confined to the engine: the engine is marked ended
\* and the run call goes on (the process does not panic).
C13_DanglingReferenceConfined ==
    [][(pc = "sub" /\ AtDangling /\ ~is_turn_end(CurEng))
          => (pc' # "panic" /\ rs'[cur[1]].runners[cur[2]].end)]_vars

\* The document with an actionRef to a label that only a fire declares was
\* built, its first engine reached the actionRef after a wait, and the process
\* panicked there: the engine is not marked ended, and the second engine of
\* the Runner, which is waiting, is not run in this frame.
C13_PanicAtDangling ==
    /\ pc = "panic" /\ AtDangling
    /\ doc = 7 /\ cur = <<1, 1>> /\ rs[1].turn = 1
    /\ CurEng.act = Some(6) /\ ~CurEng.end
    /\ rs[1].runners[2].act = Some(10) /\ rs[1].runners[2].obs.queried = Some(0)

\* The running engine is at a node whose handler evaluates an expression
\* with a $i for which i = 0 or i is greater than the length of the active
\* parameter list.
AtOutOfRange ==
    /\ Running /\ IsSome(CurEng.act)
    /\ \E x \in EvaluatedBy(Docs[doc].arena, Unwrap(CurEng.act)) :
          ~EvalOk(x, CurEng.parameters)

\* C14: evaluating $i with i = 0 or i beyond the active parameter list is a
\* failure confined to the engine: the engine is marked ended and the run
\* call goes on (the process does not panic).
C14_ParameterOutOfRangeConfined ==
    [][(pc = "sub" /\ AtOutOfRange /\ ~is_turn_end(CurEng))
          => (pc' # "panic" /\ rs'[cur[1]].runners[cur[2]].end)]_vars

\* The document was built; its first engine, inside a reference that gave
\* one parameter, came to a fire whose direction is $2 and the process
\* panicked: the engine is not marked ended and the second engine, which is
\* due in this frame, is not run.
C14_PanicAtSecondParameter ==
    /\ pc = "panic" /\ AtOutOfRange
    /\ doc = 8 /\ cur = <<1, 1>> /\ rs[1].turn = 1
    /\ CurEng.act = Some(14) /\ CurEng.parameters = << 1 * Denom >> /\ ~CurEng.end
    /\ rs[1].runners[2].act = Some(7) /\ rs[1].runners[2].obs.queried = Some(0)

\* The same for $0: the engine of the spawned bullet, whose list has one
\* element, panicked at its wait.
C14_PanicAtParameterZero ==
    /\ pc = "panic" /\ AtOutOfRange
    /\ doc = 8 /\ cur = <<2, 1>>
    /\ CurEng.act = Some(12) /\ CurEng.parameters = << 1 * Denom >>

\* Node n of the document has a child of one of the kinds.
HasKid(n, kinds) ==
    \E c \in 1..Len(Docs[doc].arena) :
        Docs[doc].arena[c].parent = <<n>> /\ Docs[doc].arena[c].kind \in kinds

\* Node n lacks a child its construct needs to act.
Malformed(n) ==
    \/ /\ Docs[doc].arena[n].kind = "Repeat"
       /\ ~HasKid(n, {"Times"}) \/ ~HasKid(n, {"Action", "ActionRef"})
    \/ /\ Docs[doc].arena[n].kind = "ChangeDirection"
       /\ ~HasKid(n, {"Direction"}) \/ ~HasKid(n, {"Term"})
    \/ /\ Docs[doc].arena[n].kind = "ChangeSpeed"
       /\ ~HasKid(n, {"Speed"}) \/ ~HasKid(n, {"Term"})
    \/ /\ Docs[doc].arena[n].kind = "Accel"
       /\ ~HasKid(n, {"Term"})

AtMalformed == Running /\ IsSome(CurEng.act) /\ Malformed(Unwrap(CurEng.act))

\* C15: executing a construct whose required child is absent is a failure of
\* the engine: the engine is marked ended (and the process does not panic);
\* the construct is not skipped and the walk does not stay on it.
C15_MalformedSubtreeEndsEngine ==
    [][(pc = "sub" /\ AtMalformed /\ ~is_turn_end(CurEng))
          => (pc' # "panic" /\ rs'[cur[1]].runners[cur[2]].end)]_vars

\* An engine executed a changeSpeed without term, a changeDirection without
\* direction and an accel without term: no ramp was installed, the engine
\* went on to the following nodes and is not ended; now it is at a repeat
\* without times, has executed it, and is still at it.
C15_SkippedThenLooping ==
    /\ pc = "sub" /\ doc = 9 /\ cur = <<1, 1>> /\ rs[1].turn = 1
    /\ {3, 5, 7, 9, 10, 14, 15} \subseteq CurEng.obs.executed
    /\ NoRamp(CurEng) /\ ~CurEng.end
    /\ CurEng.act = Some(15) /\ AtMalformed /\ ~is_turn_end(CurEng)

\* The engine of a spawned bullet panicked at a repeat that has times and no
\* body.
C15_PanicAtRepeatWithoutBody ==
    /\ pc = "panic" /\ doc = 9 /\ cur = <<2, 1>>
    /\ CurEng.act = Some(12) /\ AtMalformed

\* C16: every call of run returns: the node walk of a frame stops after
\* finitely many passes of the while loop of run_sub.  Within a frame the
\* host's answers are fixed and the walk is a function of the engine, so the
\* walk stops only if no pass leaves the engine as it found it: every pass
\* changes the engine (or, for the failures of C13 to C15, panics).
C16_EveryPassAdvances ==
    (pc = "sub" /\ IsSome(CurEng.act) /\ ~is_turn_end(CurEng)) =>
        \/ RunSubStep(CurEng, Cx(cur[1])).panic
        \/ RunSubStep(CurEng, Cx(cur[1])).eng # CurEng

\* The walk of a frame is at a repeat without times for the second time in a
\* row: the pass on it left the engine where it was.
C16_WalkStuck ==
    /\ pc = "sub" /\ doc = 9 /\ cur = <<1, 1>>
    /\ CurEng.act = Some(15) /\ 15 \in CurEng.obs.executed
    /\ ~is_turn_end(CurEng)
    /\ RunSubStep(CurEng, Cx(1)).eng = CurEng
    /\ ~RunSubStep(CurEng, Cx(1)).panic

\* C17: suspension loses nothing.  Every node an engine executes, in whatever
\* frame, is the node the uninterrupted walk is at, and its spawn / vanish
\* commands are those of the uninterrupted walk; between the calls of run the
\* engine's cursor is the cursor of the uninterrupted walk, so the engine is
\* exhausted exactly when the uninterrupted walk is.
C17_SameWalkAcrossFrames ==
    \A re \in Engines :
        /\ ObsOf(re).flat_ok
        /\ (pc = "idle" \/ (pc \in {"run", "sub"} /\ cur[1] # re[1])) =>
              /\ EngOf(re).act = ObsOf(re).flat.act
              /\ EngOf(re).act_iter = ObsOf(re).flat.act_iter
              /\ EngOf(re).parameters = ObsOf(re).flat.parameters
              /\ EngOf(re).ref_stack = ObsOf(re).flat.ref_stack
              /\ EngOf(re).repeat_stack = ObsOf(re).flat.repeat_stack

\* An engine finished, in its third frame, a walk through a
\* repeat whose body is a reference and through references nested two deep
\* that waited; the uninterrupted walk is finished as well.
C17_WalkedAcrossFrames ==
    \E re \in Engines :
        /\ doc = 2 /\ pc = "idle"
        /\ IsNone(EngOf(re).act) /\ IsNone(ObsOf(re).flat.act)
        /\ IsSome(ObsOf(re).exhausted_at) /\ Unwrap(ObsOf(re).exhausted_at) >= 2
        /\ WalkOf(Docs[doc], ObsOf(re).roots[1]) \subseteq ObsOf(re).executed
        /\ \E i \in 1..Len(ObsOf(re).ref_done) :
              ObsOf(re).ref_done[i].depth >= 2 /\ ObsOf(re).ref_done[i].frames >= 1
        /\ \E i \in 1..Len(ObsOf(re).ref_done) : ObsOf(re).ref_done[i].reps >= 1

ActionKids(b) ==
    SortedSeq({c \in 1..Len(Docs[doc].arena) :
                  /\ Docs[doc].arena[c].parent = <<b>>
                  /\ Docs[doc].arena[c].kind \in {"Action", "ActionRef"}})

\* The values of the param children of reference node r under the list ps.
ParamsOf(r, ps) ==
    LET kids == SortedSeq({c \in 1..Len(Docs[doc].arena) :
                              /\ Docs[doc].arena[c].parent = <<r>>
                              /\ Docs[doc].arena[c].kind = "Param"})
    IN [i \in 1..Len(kids) |->
          get_number_contents(Docs[doc].arena[kids[i]].expr, ps, Cx(cur[1]))]

\* The last command of a list.
LastCmd(list) == list[Len(list)]

\* C19: the pass of the walk on a bullet node issues exactly one command, a
\* spawn, and does not go into the bullet: create_simple_bullet when the
\* bullet has no action / actionRef child, otherwise create_bullet with a
\* State holding the coordinate tag, exactly the bullet's action and
\* actionRef children in document order, and the list active at that moment;
\* for a bullet reached through a bulletRef that list is the one built from
\* the params of the bulletRef.
C19_BulletIssuesOneSpawn ==
    [][(/\ pc = "sub" /\ pc' = "sub"
        /\ IsSome(CurEng.act) /\ CurNode.kind = "Bullet" /\ ~is_turn_end(CurEng))
          => /\ Len(cmds') = Len(cmds) + 1
             /\ SubSeq(cmds', 1, Len(cmds)) = cmds
             /\ LastCmd(cmds').e = cur[2]
             /\ rs'[cur[1]].runners[cur[2]].act \notin
                   {<<c>> : c \in {d \in 1..Len(Docs[doc].arena) :
                                      Docs[doc].arena[d].parent = CurEng.act}}
             /\ IF ActionKids(Unwrap(CurEng.act)) = <<>>
                THEN LastCmd(cmds').c.op = "create_simple_bullet"
                ELSE /\ LastCmd(cmds').c.op = "create_bullet"
                     /\ LastCmd(cmds').c.state.bml_type = Docs[doc].arena[1].ty
                     /\ LastCmd(cmds').c.state.nodes = ActionKids(Unwrap(CurEng.act))
                     /\ LastCmd(cmds').c.state.parameters = CurEng.parameters
                     /\ (/\ CurEng.ref_stack # <<>>
                         /\ CurEng.ref_stack[Len(CurEng.ref_stack)].ref_id
                               = Unwrap(CurEng.act))
                           => LastCmd(cmds').c.state.parameters =
                                 ParamsOf(CurEng.ref_stack[Len(CurEng.ref_stack)].prev,
                                          CurEng.ref_stack[Len(CurEng.ref_stack)]
                                              .prev_parameters)]_vars

\* A bullet reached through a bulletRef inside a reference, whose children
\* are a speed, an action, an actionRef and an action, was executed: one
\* create_bullet with the three cursors and the list (4, 5) of the bulletRef;
\* the engine executed none of the bullet's children, is back under the list
\* (3) of the outer reference, and the host made a Runner from the State.
C19_SpawnedWithCursorsAndList ==
    /\ doc = 10 /\ pc = "sub" /\ cur = <<1, 1>>
    /\ cmds # <<>> /\ LastCmd(cmds).c.op = "create_bullet"
    /\ LastCmd(cmds).c.state.nodes = <<20, 25, 27>>
    /\ LastCmd(cmds).c.state.parameters = << 4 * Denom, 5 * Denom >>
    /\ LastCmd(cmds).c.state.bml_type = "None"
    /\ LastCmd(cmds).c.speed = 5 * Denom
    /\ Cardinality({i \in 1..Len(cmds) : cmds[i].c.op \in SpawnOps}) = 1
    /\ 18 \in CurEng.obs.executed /\ CurEng.obs.executed \cap (19..28) = {}
    /\ CurEng.parameters = << 3 * Denom >>
    /\ Len(rs) = 2 /\ rs[2].runners[1].nodes = <<20, 25, 27>>
    /\ rs[2].runners[1].parameters = << 4 * Denom, 5 * Denom >>

\* The labelled elements of the kind a reference of kind refkind names, and
\* among them the declarations of label l (ids are given in the order the
\* elements start).
Declared(refkind) ==
    {n \in 1..Len(Docs[doc].arena) :
        /\ Docs[doc].arena[n].label # <<>>
        /\ Docs[doc].arena[n].kind =
              (CASE refkind = "BulletRef" -> "Bullet"
                 [] refkind = "ActionRef" -> "Action"
                 [] refkind = "FireRef" -> "Fire")}

Declarations(refkind, l) ==
    {n \in Declared(refkind) : Docs[doc].arena[n].label = <<l>>}

\* Declaration n of label l is the one that starts last.
StartsLast(refkind, l, n) ==
    /\ n \in Declarations(refkind, l)
    /\ \A m \in Declarations(refkind, l) : m <= n

\* C20: a label declared by several elements of one kind is in the table of
\* that kind, mapped to the declaration that starts later in the document,
\* and every reference an engine is inside of was resolved to that
\* declaration.
C20_LaterDeclarationWins ==
    /\ \A k \in {"BulletRef", "ActionRef", "FireRef"} :
         \A n \in Declared(k) :
                 /\ Unwrap(Docs[doc].arena[n].label) \in DOMAIN RefTable(Docs[doc], k)
                 /\ StartsLast(k, Unwrap(Docs[doc].arena[n].label),
                               RefTable(Docs[doc], k)[Unwrap(Docs[doc].arena[n].label)])
    /\ \A r \in 1..Len(rs) : \A e \in 1..Len(rs[r].runners) :
         \A i \in 1..Len(rs[r].runners[e].ref_stack) :
            StartsLast(Docs[doc].arena[rs[r].runners[e].ref_stack[i].prev].kind,
                       Unwrap(Docs[doc].arena[rs[r].runners[e].ref_stack[i].prev].label),
                       rs[r].runners[e].ref_stack[i].ref_id)

\* In the document where action "a", bullet "blt", fire "f" are declared
\* twice side by side and action "b" is declared inside action "b": the
\* first engine went through the later "a", "blt" and "f" and through none
\* of the earlier ones, and an engine of the spawned bullet is inside the
\* nested "b", reached through its actionRef.
C20_ResolvedToLater ==
    /\ doc = 10
    /\ {10, 18, 37} \subseteq rs[1].runners[1].obs.executed
    /\ rs[1].runners[1].obs.executed \cap {8, 16, 34} = {}
    /\ Len(rs) >= 2
    /\ \E e \in 1..Len(rs[2].runners) :
         /\ rs[2].runners[e].ref_stack # <<>>
         /\ rs[2].runners[e].ref_stack[1].prev = 25
         /\ rs[2].runners[e].ref_stack[1].ref_id = 31
         /\ 32 \in rs[2].runners[e].obs.executed


\* The three kinds of reference.
RefKinds == {"BulletRef", "ActionRef", "FireRef"}

\* C21: every entry of the bullet, action and fire table maps its label to a
\* node of that kind carrying that label; a label that only elements of
\* another kind declare is not in the table, and what an engine reached
\* through a reference is a declaration of the kind the reference names.
C21_TablesOfMatchingKind ==
    /\ \A k \in RefKinds :
         /\ \A l \in DOMAIN RefTable(Docs[doc], k) :
               RefTable(Docs[doc], k)[l] \in Declarations(k, l)
         /\ \A j \in RefKinds \ {k} : \A n \in Declared(j) :
               Declarations(k, Unwrap(Docs[doc].arena[n].label)) = {}
                 => Unwrap(Docs[doc].arena[n].label) \notin DOMAIN RefTable(Docs[doc], k)
    /\ \A r \in 1..Len(rs) : \A e \in 1..Len(rs[r].runners) :
         \A i \in 1..Len(rs[r].runners[e].ref_stack) :
            rs[r].runners[e].ref_stack[i].ref_id
               \in Declared(Docs[doc].arena[rs[r].runners[e].ref_stack[i].prev].kind)

\* In the document where only a fire declares the label "f", the label is in
\* the fire table and in neither of the other two, and the engine is at the
\* actionRef that names it.
C21_LabelOfAnotherKind ==
    /\ doc = 7 /\ Running /\ CurEng.act = Some(6)
    /\ CurNode.kind = "ActionRef" /\ CurNode.label = Some(L_f)
    /\ Docs[doc].fire_refs[L_f] = 12
    /\ L_f \notin DOMAIN Docs[doc].action_refs
    /\ L_f \notin DOMAIN Docs[doc].bullet_refs


\* C22: AppRunner::init is invoked every time a Runner is created or reused,
\* once by each of Runner::new, new_from_state, init and init_from_state,
\* before any run call on the new engines: at every moment a Runner's host
\* capability has received as many init calls as the Runner was made.
C22_InitOnEveryCreation ==
    \A r \in 1..Len(rs) : rs[r].inits = rs[r].made

\* What the code does: the init calls are those of the reuses alone.
C22_InitOnEveryReuse ==
    \A r \in 1..Len(rs) : rs[r].inits = rs[r].made - 1

\* The Runner made by Runner::new and a Runner made by Runner::new_from_state
\* have both been run, their engines executed nodes, and neither host
\* capability has received init.
C22_RunWithoutInit ==
    /\ Len(rs) >= 2 /\ pc = "idle"
    /\ rs[1].made = 1 /\ rs[1].inits = 0 /\ rs[1].turn >= 1
    /\ rs[1].runners[1].obs.executed # {}
    /\ rs[2].made = 1 /\ rs[2].inits = 0 /\ rs[2].turn >= 1
    /\ rs[2].runners[1].obs.executed # {}


\* An engine as RunnerImpl::new leaves it: at its first root cursor, with no
\* wake turn, ramp, stack frame or ended flag, and no value resolved.
Pristine(eng) ==
    /\ eng.act = Some(eng.nodes[1]) /\ eng.act_iter = 1
    /\ eng.root_nodes = {eng.nodes[i] : i \in 1..Len(eng.nodes)}
    /\ eng.act_turn = None /\ eng.end_turn = 0 /\ ~eng.end
    /\ eng.change_dir = None /\ eng.change_spd = None
    /\ eng.accel_x = None /\ eng.accel_y = None
    /\ eng.repeat_stack = <<>> /\ eng.ref_stack = <<>>
    /\ ~eng.spd.valid /\ ~eng.prev_spd.valid /\ ~eng.dir.valid /\ ~eng.prev_dir.valid
    /\ eng.obs.executed = {}

\* C23: Runner::init and Runner::init_from_state, in whatever state the
\* Runner is, leave exactly the engines Runner::new on that document, or
\* Runner::new_from_state on that State, creates: one pristine engine per
\* "top" action with an empty parameter list, or one pristine engine with the
\* cursors and parameters of the State; nothing of the engines of before
\* survives.
C23_ReuseIsConstruction ==
    [][(rs'[1].made = rs[1].made + 1)
         => /\ \A e \in 1..Len(rs'[1].runners) : Pristine(rs'[1].runners[e])
            /\ \/ /\ rs'[1].runners = RunnerNew(Docs[doc'])
                  /\ Len(rs'[1].runners) = Len(TopActions(Arenas[doc']))
                  /\ \A e \in 1..Len(rs'[1].runners) :
                        /\ rs'[1].runners[e].nodes = << TopActions(Arenas[doc'])[e] >>
                        /\ rs'[1].runners[e].parameters = <<>>
                        /\ rs'[1].runners[e].bml_type = Arenas[doc'][1].ty
               \/ /\ doc' = doc
                  /\ Len(rs'[1].runners) = 1
                  /\ \E i \in 1..Len(cmds) :
                        /\ cmds[i].c.op = "create_bullet"
                        /\ rs'[1].runners = RunnerNewFromState(cmds[i].c.state)
                        /\ rs'[1].runners[1].nodes = cmds[i].c.state.nodes
                        /\ rs'[1].runners[1].parameters = cmds[i].c.state.parameters
                        /\ rs'[1].runners[1].bml_type = cmds[i].c.state.bml_type]_vars

\* A Runner whose engine was waiting inside a repeat was reused with
\* Runner::init and has been run since.
C23_ReusedMidRepeat ==
    /\ rs[1].made = 2 /\ rs[1].was # None
    /\ rs[1].was[1].waiting /\ rs[1].was[1].looping
    /\ rs[1].runners[1].obs.executed # {}

\* Likewise with a live ramp, with an ended engine, and from a State.
C23_ReusedWithRamp ==
    rs[1].made = 2 /\ rs[1].was # None /\ rs[1].was[1].ramping /\ rs[1].turn = MaxTurn

C23_ReusedEnded ==
    rs[1].made = 2 /\ rs[1].was # None /\ rs[1].was[1].ended /\ rs[1].turn = MaxTurn

C23_ReusedFromState ==
    /\ rs[1].made = 2 /\ doc = 3 /\ rs[1].runners[1].obs.roots = <<5, 8, 17>>
    /\ rs[1].runners[1].obs.executed # {}


\* The grammar: the child kinds legal under each parent kind; an element of
\* any other kind has no legal child element.
Grammar ==
    [bulletml |-> {"bullet", "action", "fire"},
     bullet |-> {"direction", "speed", "action", "actionRef"},
     action |-> {"repeat", "fire", "fireRef", "changeSpeed", "changeDirection",
                 "accel", "wait", "vanish", "action", "actionRef"},
     fire |-> {"direction", "speed", "bullet", "bulletRef"},
     changeDirection |-> {"direction", "term"},
     changeSpeed |-> {"speed", "term"},
     accel |-> {"horizontal", "vertical", "term"},
     repeat |-> {"times", "action", "actionRef"},
     bulletRef |-> {"param"},
     actionRef |-> {"param"},
     fireRef |-> {"param"}]

LegalUnder(name) == IF name \in DOMAIN Grammar THEN Grammar[name] ELSE {}

\* The elements of a text that are not legal where they are.
Offending(xml) ==
    {j \in 1..Len(xml) :
        IF j = 1 THEN xml[1].name # "bulletml"
        ELSE xml[j].name \notin LegalUnder(xml[xml[j].parent].name)}

\* What the parser returned for the text, once it has.
Parsed == job # None /\ job.res # None
ParseResult == job.res[1]

\* The claim on a returned result.
FirstOffenderReported ==
    IF Offending(job.xml) = {}
    THEN ParseResult.ok
    ELSE /\ ~ParseResult.ok /\ ParseResult.nodes = {}
         /\ ParseResult.err = "UnexpectedElement"
         /\ ParseResult.at = Min(Offending(job.xml))
         /\ ParseResult.name = job.xml[Min(Offending(job.xml))].name

\* C24: building fails with an UnexpectedElement error naming the offending
\* element, and yields no document, whenever some element has a child element
\* whose kind is not legal under its parent (or the root element is not
\* bulletml); the error is that of the first offending element in document
\* order; building succeeds when every child kind is legal.
C24_IllegalChildFailsBuild == Parsed => FirstOffenderReported

\* Some element with no rule in the grammar has a child element.
LeafWithChild(xml) ==
    \E j \in 2..Len(xml) : xml[xml[j].parent].name \notin DOMAIN Grammar

\* What the code does: the claim holds for the texts in which only elements
\* with a rule in the grammar have child elements.
C24_CheckedUnderRuledParents ==
    (Parsed /\ ~LeafWithChild(job.xml)) => FirstOffenderReported

\* The text <bulletml><action><vanish><foo/></vanish></action></bulletml>
\* was built: the element under vanish was not looked at.
C24_BuiltWithChildOfVanish ==
    /\ Parsed
    /\ job.xml = << Elem("bulletml", 0, None), Elem("action", 1, None),
                    Elem("vanish", 2, None), Elem("foo", 3, None) >>
    /\ ParseResult.ok /\ ParseResult.nodes = {1, 2, 3}

\* The text <bulletml><action><wait><fire/></wait></action></bulletml> was
\* refused with another error, which does not name the element.
C24_OtherErrorUnderWait ==
    /\ Parsed
    /\ job.xml = << Elem("bulletml", 0, None), Elem("action", 1, None),
                    Elem("wait", 2, None), Elem("fire", 3, None) >>
    /\ ~ParseResult.ok /\ ParseResult.err = "UnexpectedNodeType"
    /\ ParseResult.name = "Element" /\ ParseResult.at = 4

\* A text with two offending elements under ruled parents: the first in
\* document order, nested deeper than the second, is the one reported.
C24_FirstOfTwoReported ==
    /\ Parsed
    /\ job.xml = << Elem("bulletml", 0, None), Elem("action", 1, None),
                    Elem("bullet", 2, None), Elem("foo", 1, None) >>
    /\ ~ParseResult.ok /\ ParseResult.err = "UnexpectedElement"
    /\ ParseResult.name = "bullet" /\ ParseResult.at = 3


\* The engine being run after the step.
CurEngNext == rs'[cur[1]].runners[cur[2]]

\* The walk is about to execute a node of one of the kinds, and does.
Executes(kinds) ==
    /\ pc = "sub" /\ pc' = "sub"
    /\ IsSome(CurEng.act) /\ ~is_turn_end(CurEng)
    /\ CurNode.kind \in kinds

\* C25: executing a reference node evaluates its param children in document
\* order against the list that was active before (the caller's list), and
\* the fresh list holds exactly one value per param child and nothing else:
\* the caller's parameters are not inherited, and a reference without params
\* runs its target with an empty list.  The caller's list is stacked.
C25_FreshListFromParams ==
    [][Executes(RefKinds)
         => /\ CurEngNext.parameters = ParamsOf(Unwrap(CurEng.act), CurEng.parameters)
            /\ Len(CurEngNext.parameters) =
                  Cardinality({c \in 1..Len(Docs[doc].arena) :
                                  /\ Docs[doc].arena[c].parent = CurEng.act
                                  /\ Docs[doc].arena[c].kind = "Param"})
            /\ Len(CurEngNext.ref_stack) = Len(CurEng.ref_stack) + 1
            /\ CurEngNext.ref_stack[Len(CurEngNext.ref_stack)].prev_parameters
                  = CurEng.parameters
            /\ CurEngNext.ref_stack[Len(CurEngNext.ref_stack)].prev = Unwrap(CurEng.act)
            /\ CurEngNext.act =
                  Some(CurEngNext.ref_stack[Len(CurEngNext.ref_stack)].ref_id)]_vars

\* An engine has just entered a reference without params from a caller whose
\* list was (2): the list is empty.
C25_EmptyListUnderCaller ==
    /\ pc = "sub" /\ doc = 12
    /\ CurEng.ref_stack # <<>>
    /\ CurEng.act = Some(CurEng.ref_stack[Len(CurEng.ref_stack)].ref_id)
    /\ CurEng.ref_stack[Len(CurEng.ref_stack)].prev = 7
    /\ CurEng.ref_stack[Len(CurEng.ref_stack)].prev_parameters = << 2 * Denom >>
    /\ CurEng.parameters = <<>>

\* An engine has just entered the bulletRef with params ($1+1, 5) from a
\* caller whose list was (3): the list is (4, 5).
C25_ParamsAgainstCallersList ==
    /\ pc = "sub" /\ doc = 10 /\ cur = <<1, 1>>
    /\ CurEng.act = Some(18)
    /\ Len(CurEng.ref_stack) = 2
    /\ CurEng.ref_stack[2].prev = 12
    /\ CurEng.ref_stack[2].prev_parameters = << 3 * Denom >>
    /\ CurEng.parameters = << 4 * Denom, 5 * Denom >>


\* Node n and its ancestors in the document.
RECURSIVE AncOrSelf(_)
AncOrSelf(n) ==
    IF Docs[doc].arena[n].parent = None THEN {n}
    ELSE {n} \cup AncOrSelf(Docs[doc].arena[n].parent[1])

\* The node after n among the children of its parent, if any.
SiblingAfter(n) ==
    {s \in 1..Len(Docs[doc].arena) :
        /\ Docs[doc].arena[s].parent = Docs[doc].arena[n].parent /\ s > n
        /\ \A t \in 1..Len(Docs[doc].arena) :
              (Docs[doc].arena[t].parent = Docs[doc].arena[n].parent /\ t > n) => s <= t}

\* Where the walk may go on when it climbs from node n: the sibling after n
\* or after an ancestor of n, or the body of a repeat around n.
Resumable(n) ==
    UNION {SiblingAfter(a) : a \in AncOrSelf(n)}
    \cup {b \in 1..Len(Docs[doc].arena) :
            /\ Docs[doc].arena[b].kind \in {"Action", "ActionRef"}
            /\ \E a \in AncOrSelf(n) :
                  /\ Docs[doc].arena[a].parent = Docs[doc].arena[b].parent
                  /\ Docs[doc].arena[b].parent # None
                  /\ Docs[doc].arena[Docs[doc].arena[b].parent[1]].kind = "Repeat"}

\* The frames of the stack before a step that are gone after it, lowest first.
Popped(old, new) == SubSeq(old, Len(new) + 1, Len(old))

\* The walk went on from the reference node of frame f, and to is its cursor.
ResumedAt(f, to, roots) ==
    IF f.prev \in roots THEN to = None
    ELSE IF SiblingAfter(f.prev) # {} THEN to \in {<<s>> : s \in SiblingAfter(f.prev)}
    ELSE to = None \/ to[1] \in Resumable(f.prev)

\* C26: when the subtree of a referenced definition is exhausted the walk
\* goes on at the next sibling of the reference node that started the
\* expansion, or climbs from that node when it has none, and not from the
\* definition; the frames are popped last in first out, each pop returning to
\* its own reference node (a frame above the lowest one popped in a step
\* belongs to a reference node without next sibling inside the definition of
\* the frame below it).
C26_ReturnsToReferenceNode ==
    [][(/\ pc = "sub" /\ pc' = "sub"
        /\ Len(CurEngNext.ref_stack) < Len(CurEng.ref_stack))
         => /\ CurEngNext.ref_stack
                  = SubSeq(CurEng.ref_stack, 1, Len(CurEngNext.ref_stack))
            /\ \A j \in 2..Len(Popped(CurEng.ref_stack, CurEngNext.ref_stack)) :
                  /\ SiblingAfter(Popped(CurEng.ref_stack, CurEngNext.ref_stack)[j].prev) = {}
                  /\ Popped(CurEng.ref_stack, CurEngNext.ref_stack)[j].prev
                        \notin CurEng.root_nodes
                  /\ Popped(CurEng.ref_stack, CurEngNext.ref_stack)[j - 1].ref_id
                        \in AncOrSelf(Popped(CurEng.ref_stack, CurEngNext.ref_stack)[j].prev)
            /\ ResumedAt(Popped(CurEng.ref_stack, CurEngNext.ref_stack)[1],
                         CurEngNext.act, CurEng.root_nodes)
            /\ CurEngNext.parameters
                  = Popped(CurEng.ref_stack, CurEngNext.ref_stack)[1].prev_parameters]_vars

\* The bullet reached through a bulletRef inside a fire reached through a
\* fireRef was executed: both frames were popped and the walk is at the wait
\* that follows the fireRef, inside the outer reference, and not at the
\* bullet that follows the fire's declaration.
C26_BackAfterTwoFrames ==
    /\ pc = "sub" /\ doc = 2 /\ cur = <<1, 1>>
    /\ CurEng.act = Some(14)
    /\ Len(CurEng.ref_stack) = 1 /\ CurEng.ref_stack[1].prev = 3
    /\ {12, 21, 22, 24} \subseteq CurEng.obs.executed
    /\ 14 \notin CurEng.obs.executed


\* The root cursors an engine was made with.
RootsOf(re) == {ObsOf(re).roots[i] : i \in 1..Len(ObsOf(re).roots)}

\* The definitions the references executed by an engine lead to.
DefinitionsReached(re) ==
    {RefTable(Docs[doc], Docs[doc].arena[r].kind)[Unwrap(Docs[doc].arena[r].label)] :
        r \in {x \in ObsOf(re).executed :
                 /\ Docs[doc].arena[x].kind \in RefKinds
                 /\ Unwrap(Docs[doc].arena[x].label)
                       \in DOMAIN RefTable(Docs[doc], Docs[doc].arena[x].kind)}}

\* Node n lies in the subtree of one of the nodes tops.
Under(n, tops) == AncOrSelf(n) \cap tops # {}

\* C27: an engine executes only nodes in the subtree of one of its own root
\* cursors or of a definition reached through a reference it executed, and
\* its cursor stays in the subtree of the current root cursor or of a
\* definition on its reference stack: when the subtree of a root cursor is
\* exhausted the walk stops there and does not go on at the root's next
\* sibling or parent.
C27_StaysUnderItsRoots ==
    \A re \in Engines :
       /\ \A n \in ObsOf(re).executed : Under(n, RootsOf(re) \cup DefinitionsReached(re))
       /\ (IsSome(EngOf(re).act) /\ ~EngOf(re).end)
            => /\ EngOf(re).act_iter <= Len(ObsOf(re).roots)
               /\ Under(Unwrap(EngOf(re).act),
                        {ObsOf(re).roots[EngOf(re).act_iter]}
                        \cup {EngOf(re).ref_stack[i].ref_id :
                                 i \in 1..Len(EngOf(re).ref_stack)})

\* The engine of a spawned bullet whose root cursors are three sibling
\* children of the bullet, after a speed child, has run all three, the second
\* through a reference into a definition outside the bullet, and executed
\* nothing else.
C27_ThreeSiblingRootsDone ==
    \E re \in Engines :
       /\ doc = 10 /\ ObsOf(re).roots = <<20, 25, 27>>
       /\ IsNone(EngOf(re).act)
       /\ {20, 22, 25, 28} \subseteq ObsOf(re).executed
       /\ \E n \in ObsOf(re).executed : ~Under(n, RootsOf(re))
       /\ 19 \notin ObsOf(re).executed


\* The truncated term of the change node the running engine is at.
TermAt ==
    as_u32(get_number_contents(
              ChildOf(Docs[doc].arena, Unwrap(CurEng.act), match_term).expr,
              CurEng.parameters, Cx(cur[1])))

\* Ramp f runs from the host turn of the running frame, for the truncated
\* term of the node, from the value first.
FromThisFrame(f, first) ==
    /\ IsSome(f)
    /\ f[1].first_x = rs[cur[1]].turn
    /\ f[1].last_x = rs[cur[1]].turn + TermAt
    /\ f[1].first_y = first

\* The same with the wake turn of the engine in place of the host turn.
FromActTurn(f, first) ==
    /\ IsSome(f)
    /\ f[1].first_x = ActTurnOr0(CurEng)
    /\ f[1].last_x = ActTurnOr0(CurEng) + TermAt
    /\ f[1].first_y = first

\* The running engine executes a well-formed change node of the kind.
Changes(kind, target) ==
    /\ Executes({kind})
    /\ HasChild(Docs[doc].arena, Unwrap(CurEng.act), match_term)
    /\ HasChild(Docs[doc].arena, Unwrap(CurEng.act), target)

\* C28: the ramp installed by a change-direction, change-speed or accelerate
\* node has its first turn equal to the host turn of the frame in which the
\* node is executed, its last turn equal to that turn plus the truncated
\* term, and its first value equal to the host's current value, in every
\* root cursor of the engine.
C28_RampFromFrameTurn ==
    [][/\ Changes("ChangeDirection", match_direction)
          => FromThisFrame(CurEngNext.change_dir, host.bullet_direction)
       /\ Changes("ChangeSpeed", match_speed)
          => FromThisFrame(CurEngNext.change_spd, host.bullet_speed)
       /\ (Changes("Accel", match_horizontal) \/ Changes("Accel", match_vertical))
          => /\ CurEngNext.accel_x # CurEng.accel_x
                  => FromThisFrame(CurEngNext.accel_x, host.bullet_speed_x)
             /\ CurEngNext.accel_y # CurEng.accel_y
                  => FromThisFrame(CurEngNext.accel_y, host.bullet_speed_y)]_vars

\* What the code does: the ramp runs from the wake turn of the engine.
C28_RampFromActTurn ==
    [][/\ Changes("ChangeDirection", match_direction)
          => FromActTurn(CurEngNext.change_dir, host.bullet_direction)
       /\ Changes("ChangeSpeed", match_speed)
          => FromActTurn(CurEngNext.change_spd, host.bullet_speed)
       /\ (Changes("Accel", match_horizontal) \/ Changes("Accel", match_vertical))
          => /\ CurEngNext.accel_x # CurEng.accel_x
                  => FromActTurn(CurEngNext.accel_x, host.bullet_speed_x)
             /\ CurEngNext.accel_y # CurEng.accel_y
                  => FromActTurn(CurEngNext.accel_y, host.bullet_speed_y)]_vars

\* In the first root cursor of an engine the ramp does run from the host
\* turn of the frame.
C28_FirstCursorFromFrameTurn ==
    [][(Changes("ChangeSpeed", match_speed) /\ CurEng.act_iter = 1)
          => FromThisFrame(CurEngNext.change_spd, host.bullet_speed)]_vars

\* The engine of the bullet with three actions executed the changeSpeed of its
\* second action in the frame of turn 3, and the ramp installed runs from
\* turn 2 to turn 4.
C28_RampFromEarlierTurn ==
    /\ pc = "sub" /\ doc = 3
    /\ CurEng.act_iter = 2
    /\ rs[cur[1]].turn = 3
    /\ 9 \in CurEng.obs.executed
    /\ IsSome(CurEng.change_spd)
    /\ CurEng.change_spd[1].first_x = 2
    /\ CurEng.change_spd[1].last_x = 4
    /\ CurEng.change_spd[1].first_y = host.bullet_speed


\* The value of the expression of node c under the running engine.
ExprAt(c) == get_number_contents(c.expr, CurEng.parameters, Cx(cur[1]))

\* The running engine executes a fire or a bullet whose child matching m is
\* sequence-typed.
ShootsSequence(m) ==
    /\ Executes({"Fire", "Bullet"})
    /\ HasChild(Docs[doc].arena, Unwrap(CurEng.act), m)
    /\ ChildOf(Docs[doc].arena, Unwrap(CurEng.act), m).ty = "Sequence"

\* The nodes whose handler evaluates or defaults a speed (a direction): the
\* bullets, the fires with such a child, and the well-formed changes whose
\* target is not sequence-typed.
Evaluators(change, m) ==
    {n \in 1..Len(Docs[doc].arena) :
        \/ Docs[doc].arena[n].kind = "Bullet"
        \/ Docs[doc].arena[n].kind = "Fire" /\ HasChild(Docs[doc].arena, n, m)
        \/ /\ Docs[doc].arena[n].kind = change
           /\ HasChild(Docs[doc].arena, n, match_term)
           /\ HasChild(Docs[doc].arena, n, m)
           /\ ChildOf(Docs[doc].arena, n, m).ty # "Sequence"}

\* Direction d is direction e brought into the range by whole turns.
Turned(d, e) == d >= 0 /\ d <= Deg(360) /\ (d - e) % Deg(360) = 0

C30_ZeroWaitDoesNotSuspend ==
    [][/\ (Executes({"Wait"}) /\ as_u32(ExprAt(CurNode)) = 0)
          => /\ CurEngNext.act_turn = CurEng.act_turn
             /\ ~is_turn_end(CurEngNext)
             /\ cur' = cur /\ rs'[cur[1]].turn = rs[cur[1]].turn
       /\ (pc = "sub" /\ IsSome(CurEng.act) /\ ~is_turn_end(CurEng))
          => /\ cur' = cur /\ rs'[cur[1]].turn = rs[cur[1]].turn
             /\ pc' = "panic" \/ Unwrap(CurEng.act) \in CurEngNext.obs.executed]_vars

\* Waits of 0.5, -1 and 0 stand between three fires: all of them were
\* executed in the first frame, the resume turn is still 0, and the engine is
\* back at the wait that follows the reference.
C30_ThreeFiresInOneFrame ==
    /\ pc = "sub" /\ doc = 12 /\ cur = <<1, 1>>
    /\ rs[1].turn = 0 /\ CurEng.act_turn = Some(0)
    /\ {10, 11, 13, 14, 16, 17, 18} \subseteq CurEng.obs.executed
    /\ CurEng.act = Some(8)
    /\ Len(SelectSeq(cmds, LAMBDA c : c.c.op = "create_simple_bullet")) = 3


\* C31: when the host keeps calling run once per turn and every call
\* returns, each engine becomes ended.  Stated for the turns the host runs a
\* Runner: in every document, once the call of the last of these turns has
\* returned, every engine of the Runner is ended, with no cursor, no live
\* ramp and its wake turn reached.  (A Runner whose call does not return, by
\* a panic or a walk that stays on a node, never gets to that turn.)
C31_EveryEngineEnds ==
    \A r \in 1..Len(rs) :
       rs[r].turn = MaxTurn
          => \A e \in 1..Len(rs[r].runners) :
                /\ rs[r].runners[e].end
                /\ IsNone(rs[r].runners[e].act)
                /\ NoRamp(rs[r].runners[e])
                /\ ActTurnOr0(rs[r].runners[e]) <= rs[r].turn

\* Two Runners were run for all their turns; the engine of the spawned one had
\* three root cursors and waited; all their engines are ended.
C31_AllEndedAfterWaits ==
    /\ pc = "idle"
    /\ \A r \in 1..Len(rs) : rs[r].turn = MaxTurn
    /\ Len(rs) >= 2
    /\ \E re \in Engines :
          /\ EngOf(re).end
          /\ Len(ObsOf(re).roots) = 3
          /\ IsSome(ObsOf(re).resumed)

\* A Runner was run for all its turns; its engine waited, had a ramp that
\* finished some frames after its last node, and is ended.
C31_EndedAfterRampAtLastTurn ==
    \E re \in Engines :
       /\ rs[re[1]].turn = MaxTurn
       /\ EngOf(re).end
       /\ IsSome(ObsOf(re).resumed)
       /\ ObsOf(re).ramp_fin # {}


\* The host calls of the ramps, in the order changes makes them.
RampCalls == <<"do_change_direction", "do_change_speed", "do_accel_x", "do_accel_y">>

RampCall(c) == \E k \in 1..4 : c.op = RampCalls[k]

RampPlace(c) == CHOOSE k \in 1..4 : c.op = RampCalls[k]

\* The commands the step added to those of the running call of Runner::run.
Added == SubSeq(cmds', Len(cmds) + 1, Len(cmds'))

\* The ramp calls for the ramps an engine holds, in the order of changes.
CallsDue(eng) ==
    SelectSeq(RampCalls,
              LAMBDA op : \/ op = "do_change_direction" /\ IsSome(eng.change_dir)
                          \/ op = "do_change_speed" /\ IsSome(eng.change_spd)
                          \/ op = "do_accel_x" /\ IsSome(eng.accel_x)
                          \/ op = "do_accel_y" /\ IsSome(eng.accel_y))

\* C32: within one frame of one engine all ramp calls precede every command
\* caused by node execution, the ramp calls come in the order direction,
\* speed, x-acceleration, y-acceleration, and each ramp live at the start of
\* the frame is called exactly once: among the commands of an engine in a
\* run call a ramp call follows only ramp calls of earlier kinds; the entry
\* of run issues exactly the calls of the ramps the engine holds, in that
\* order, and none if it is ended; a pass of run_sub issues no ramp call.
C32_RampCallsFirstInOrder ==
    [][/\ \A i, j \in 1..Len(cmds) :
            (i < j /\ cmds[i].e = cmds[j].e /\ RampCall(cmds[j].c))
               => RampCall(cmds[i].c) /\ RampPlace(cmds[i].c) < RampPlace(cmds[j].c)
       /\ pc = "run"
            => /\ \A i \in 1..Len(Added) : Added[i].e = cur[2]
               /\ [i \in 1..Len(Added) |-> Added[i].c.op]
                     = IF CurEng.end THEN <<>> ELSE CallsDue(CurEng)
       /\ pc = "sub"
            => \A i \in 1..Len(Added) : ~RampCall(Added[i].c)]_vars

\* A frame of an engine that held all four ramps, installed in the order x, y,
\* speed, direction: the calls for direction, speed, x and y were made in
\* that order, then the engine's fire created its bullet.
C32_FourRampsThenFire ==
    /\ doc = 14 /\ pc = "sub" /\ rs[1].turn = 1
    /\ Len(cmds) = 5
    /\ [i \in 1..4 |-> cmds[i].c.op] = RampCalls
    /\ cmds[5].c.op = "create_simple_bullet"
    /\ \A i \in 1..5 : cmds[i].e = 1


\* The direction a direction node of type ty and value v asks for, before it
\* is brought into the range.
Target(ty, v) ==
    IF ty = "Absolute"
    THEN IF CurEng.bml_type = "Horizontal" THEN v - Deg(90) ELSE v
    ELSE IF ty = "Relative" THEN v + host.bullet_direction
    ELSE v + host.aim_direction

\* Ramp f goes from d0 the shorter way round to a direction congruent to to.
ShorterWay(f, d0, to) ==
    /\ f.first_y = d0
    /\ ((f.last_y - d0) - (to - d0)) % Deg(360) = 0
    /\ Abs(f.last_y - d0) <= Deg(180)

\* Ramp f goes from d0 by step for each turn of the term.
Additive(f, d0, step) ==
    /\ f.first_y = d0
    /\ f.last_y = d0 + step * TermAt

DirectionRamp(f, d) ==
    IF d.ty = "Sequence" THEN Additive(f, host.bullet_direction, ExprAt(d))
    ELSE ShorterWay(f, host.bullet_direction, Target(d.ty, ExprAt(d)))

\* C33: the ramp installed by a change-direction that is not sequence-typed
\* runs from the host's direction d0 to d0 + delta, delta congruent to
\* target - d0 modulo 360 and |delta| <= 180; for type sequence it runs from
\* d0 to d0 + value * term, with no wrap-around.
C33_ShorterWayUnlessSequence ==
    [][Changes("ChangeDirection", match_direction)
          => /\ IsSome(CurEngNext.change_dir)
             /\ host.bullet_direction >= 0 /\ host.bullet_direction < Deg(360)
             /\ DirectionRamp(CurEngNext.change_dir[1],
                              ChildOf(Docs[doc].arena, Unwrap(CurEng.act),
                                      match_direction))]_vars

\* From direction 0 the change to the absolute direction 200 runs to -160.
C33_BackwardsTo200 ==
    /\ doc = 14 /\ pc = "sub" /\ host.bullet_direction = 0
    /\ 10 \in CurEng.obs.executed /\ rs[1].turn = 0
    /\ IsSome(CurEng.change_dir)
    /\ CurEng.change_dir[1].first_y = 0
    /\ CurEng.change_dir[1].last_y = 0 - Deg(160)

\* From direction 350 the change to the absolute direction 10 runs to 370.
C33_ThroughNorthTo10 ==
    /\ doc = 4 /\ pc = "sub" /\ host.bullet_direction = Deg(350)
    /\ IsSome(CurEng.change_dir)
    /\ CurEng.change_dir[1].first_y = Deg(350)
    /\ CurEng.change_dir[1].last_y = Deg(370)

\* From 350 the sequence-typed change of 100 per turn over 2 turns runs to
\* 550.
C33_SequenceTo550 ==
    /\ doc = 14 /\ pc = "sub" /\ host.bullet_direction = Deg(350)
    /\ 19 \in CurEng.obs.executed
    /\ IsSome(CurEng.change_dir)
    /\ CurEng.change_dir[1].first_y = Deg(350)
    /\ CurEng.change_dir[1].last_y = Deg(550)


\* The repeats of the document whose count is a constant of at least 1 and
\* which have a body.
CountedRepeats ==
    {n \in 1..Len(Docs[doc].arena) :
        /\ Docs[doc].arena[n].kind = "Repeat"
        /\ HasChild(Docs[doc].arena, n, match_times)
        /\ HasChild(Docs[doc].arena, n, match_any_action)
        /\ ChildOf(Docs[doc].arena, n, match_times).expr[1] = "const"
        /\ as_u32(ChildOf(Docs[doc].arena, n, match_times).expr[2]) >= 1}

CountOf(n) == as_u32(ChildOf(Docs[doc].arena, n, match_times).expr[2])

BodyOf(n) == Unwrap(get_first_child_id_matching(Docs[doc].arena, n, match_any_action))

\* The frames of the repeat stack of eng whose body is b.
FramesOf(eng, b) == {i \in 1..Len(eng.repeat_stack) : eng.repeat_stack[i].act = b}

\* The body b of a repeat of count k entered entries times has run k times
\* for each entry left, and in the entry under way (frame f) once for each
\* iteration done, and once more when the iteration under way has begun.
RanPerEntry(eng, b, k, entries) ==
    IF FramesOf(eng, b) = {} THEN Ran(eng.obs, b) = k * entries
    ELSE /\ Cardinality(FramesOf(eng, b)) = 1
         /\ \A i \in FramesOf(eng, b) :
               /\ eng.repeat_stack[i].end = k
               /\ eng.repeat_stack[i].iter < k
               /\ Ran(eng.obs, b) - k * (entries - 1)
                     \in {eng.repeat_stack[i].iter, eng.repeat_stack[i].iter + 1}

\* Stack new is stack old with frames taken off or one put on, and nothing
\* changed below the top that is left, whose counter went up by one only if
\* the walk went back to its body.
OnlyTopCounts(old, new, act) ==
    /\ Len(new) <= Len(old) + 1
    /\ \A i \in 1..Len(new) :
          \/ i <= Len(old) /\ new[i] = old[i]
          \/ /\ i = Len(new) /\ i <= Len(old)
             /\ new[i] = [old[i] EXCEPT !.iter = @ + 1]
             /\ act = Some(old[i].act)
          \/ i = Len(old) + 1

\* C34: with nested repeats, directly or through action references, every
\* entry of a repeat evaluates its own count and pushes its own frame;
\* exhausting an inner loop takes off only its frame and leaves the counter
\* of the enclosing loop as it was; the body of a repeat of count K >= 1 is
\* executed exactly K times for each entry of the repeat, so an inner body
\* under an outer count M runs M * K times, also across frames.
C34_NestedRepeatsCountApart ==
    [][/\ \A re \in Engines : \A n \in CountedRepeats :
            (Ran(ObsOf(re), n) < MaxRan /\ Ran(ObsOf(re), BodyOf(n)) < MaxRan
             /\ ~(pc = "panic" /\ re = cur))
               => RanPerEntry(EngOf(re), BodyOf(n), CountOf(n), Ran(ObsOf(re), n))
       /\ (pc = "sub" /\ pc' = "sub")
            => OnlyTopCounts(CurEng.repeat_stack, CurEngNext.repeat_stack, CurEngNext.act)
       /\ (Executes({"Repeat"}) /\ Unwrap(CurEng.act) \in CountedRepeats)
            => CurEngNext.repeat_stack
                 = Append(CurEng.repeat_stack,
                          RepeatElem(0, CountOf(Unwrap(CurEng.act)),
                                     BodyOf(Unwrap(CurEng.act))))]_vars

\* The engine of the document with a repeat of 2 around a repeat of 2 (with a
\* wait in its body) and a referenced repeat of 3 has ended: the outer body
\* ran 2 times, the inner one 4 times over four frames, the referenced one 6
\* times.
C34_TwoByTwoAndTwoByThree ==
    /\ doc = 15 /\ pc = "idle" /\ rs[1].runners[1].end
    /\ Ran(rs[1].runners[1].obs, 3) = 1
    /\ Ran(rs[1].runners[1].obs, 5) = 2
    /\ Ran(rs[1].runners[1].obs, 6) = 2
    /\ Ran(rs[1].runners[1].obs, 8) = 4 /\ Ran(rs[1].runners[1].obs, 9) = 4
    /\ Ran(rs[1].runners[1].obs, 11) = 4
    /\ Ran(rs[1].runners[1].obs, 14) = 2
    /\ Ran(rs[1].runners[1].obs, 16) = 6 /\ Ran(rs[1].runners[1].obs, 17) = 6
    /\ rs[1].turn >= 5


\* The four ramps of an engine but those of the kinds in ks.
OtherRamps(eng, ks) ==
    [k \in {"dir", "spd", "x", "y"} \ ks |->
        IF k = "dir" THEN eng.change_dir
        ELSE IF k = "spd" THEN eng.change_spd
        ELSE IF k = "x" THEN eng.accel_x
        ELSE eng.accel_y]

\* The accelerate node the running engine is at drives these kinds.
AccelKinds ==
    LET n == Unwrap(CurEng.act)
        flip == CurEng.bml_type = "Horizontal"
    IN {k \in {"x"} : HasChild(Docs[doc].arena, n,
                               IF flip THEN match_vertical ELSE match_horizontal)}
       \cup {k \in {"y"} : HasChild(Docs[doc].arena, n,
                                    IF flip THEN match_horizontal ELSE match_vertical)}

\* The values of the host calls that ramp f, held at the entry of the
\* frame of turn now, accounts for: one if there is a ramp, none otherwise.
CallsOf(f, now) ==
    IF IsNone(f) THEN <<>>
    ELSE IF now >= f[1].last_x THEN << get_last(f[1]) >>
    ELSE << get_value(f[1], now) >>

\* C35: an engine holds at most one ramp per kind: a change node executed
\* while a ramp of its kind is live replaces that ramp, the ramps of the
\* other kinds are left as they are, and in every frame each kind makes at
\* most one host call, whose value is that of the ramp held, so a replaced
\* ramp makes no further call and its terminal value is never emitted.
C35_ChangeReplacesItsRampOnly ==
    [][/\ Changes("ChangeSpeed", match_speed)
          => /\ FromActTurn(CurEngNext.change_spd, host.bullet_speed)
             /\ OtherRamps(CurEngNext, {"spd"}) = OtherRamps(CurEng, {"spd"})
       /\ Changes("ChangeDirection", match_direction)
          => /\ FromActTurn(CurEngNext.change_dir, host.bullet_direction)
             /\ OtherRamps(CurEngNext, {"dir"}) = OtherRamps(CurEng, {"dir"})
       /\ (Executes({"Accel"}) /\ HasChild(Docs[doc].arena, Unwrap(CurEng.act), match_term))
          => /\ "x" \in AccelKinds => FromActTurn(CurEngNext.accel_x, host.bullet_speed_x)
             /\ "y" \in AccelKinds => FromActTurn(CurEngNext.accel_y, host.bullet_speed_y)
             /\ OtherRamps(CurEngNext, AccelKinds) = OtherRamps(CurEng, AccelKinds)
       /\ (pc = "sub" /\ pc' = "sub" /\ ~Executes({"ChangeSpeed", "ChangeDirection", "Accel"}))
          => OtherRamps(CurEngNext, {}) = OtherRamps(CurEng, {})
       /\ (pc = "run" /\ ~CurEng.end)
          => LET out == [i \in 1..Len(Added) |-> Added[i].c]
                 now == rs[cur[1]].turn
             IN /\ Issued(out, "do_change_direction") = CallsOf(CurEng.change_dir, now)
                /\ Issued(out, "do_change_speed") = CallsOf(CurEng.change_spd, now)
                /\ Issued(out, "do_accel_x") = CallsOf(CurEng.accel_x, now)
                /\ Issued(out, "do_accel_y") = CallsOf(CurEng.accel_y, now)]_vars

\* The engine that replaced a speed ramp to 3 by one to 5 and a direction
\* ramp to 200 by a sequence ramp, both while the first was live, has ended:
\* it has called the host with the terminal values of the second ramps and
\* never with those of the first.
C35_ReplacedRampsNeverFinished ==
    /\ doc = 14 /\ pc = "idle" /\ rs[1].runners[1].end
    /\ Ran(rs[1].runners[1].obs, 7) = 1 /\ Ran(rs[1].runners[1].obs, 16) = 1
    /\ Ran(rs[1].runners[1].obs, 10) = 1 /\ Ran(rs[1].runners[1].obs, 19) = 1
    /\ \E i \in 1..Len(rs[1].runners[1].obs.calls) :
          rs[1].runners[1].obs.calls[i] = [op |-> "do_change_speed", v |-> Frac(5 * Denom, 1)]
    /\ \E i \in 1..Len(rs[1].runners[1].obs.calls) :
          rs[1].runners[1].obs.calls[i]
             = [op |-> "do_change_direction", v |-> Frac(host.bullet_direction + Deg(200), 1)]
    /\ \A i \in 1..Len(rs[1].runners[1].obs.calls) :
          /\ rs[1].runners[1].obs.calls[i] # [op |-> "do_change_speed", v |-> Frac(3 * Denom, 1)]
          /\ rs[1].runners[1].obs.calls[i].op = "do_change_direction"
               => rs[1].runners[1].obs.calls[i].v
                     \notin {Frac(Deg(200), 1), Frac(0 - Deg(160), 1)}
    /\ Len(SelectSeq(rs[1].runners[1].obs.calls, LAMBDA c : c.op = "do_change_speed")) = 2


\* The commands named op among those the step added.
AddedOf(op) == SelectSeq(Added, LAMBDA t : t.c.op = op)

\* Node n is the last node of the body of the loop whose frame is on top of
\* the repeat stack of eng, and that loop has an iteration left.
EndsUnfinishedBody(eng, n) ==
    /\ SiblingAfter(n) = {}
    /\ eng.repeat_stack # <<>>
    /\ Docs[doc].arena[n].parent = Some(Last(eng.repeat_stack).act)
    /\ SiblingAfter(Last(eng.repeat_stack).act) = {}
    /\ Last(eng.repeat_stack).iter + 1 < Last(eng.repeat_stack).end

\* C36: executing a vanish node issues exactly one do_vanish call (and no
\* other step issues one); it neither ends the engine nor stops the walk,
\* which goes on to the next sibling, or back to the body of the loop the
\* vanish ends; an engine becomes ended only at the entry of run, with no
\* active node, no wait pending and no ramp left.
C36_VanishGoesOn ==
    [][/\ Executes({"Vanish"})
          => /\ Added = << [e |-> cur[2], c |-> [op |-> "do_vanish"]] >>
             /\ ~CurEngNext.end
             /\ SiblingAfter(Unwrap(CurEng.act)) # {}
                  => \E s \in SiblingAfter(Unwrap(CurEng.act)) : CurEngNext.act = Some(s)
             /\ EndsUnfinishedBody(CurEng, Unwrap(CurEng.act))
                  => CurEngNext.act = Some(Last(CurEng.repeat_stack).act)
       /\ ~Executes({"Vanish"}) => AddedOf("do_vanish") = <<>>
       /\ \A re \in Engines :
             (~EngOf(re).end /\ rs'[re[1]].runners[re[2]].end)
                => /\ pc = "run" /\ re = cur
                   /\ IsNone(CurEng.act)
                   /\ ~is_turn_end(CurEng)
                   /\ NoRamp(CurEngNext)]_vars

\* In one frame an engine has called do_vanish at the end of the first
\* iteration of a loop and gone on: it called do_vanish again in the next
\* iterations, then fired a bullet in the loop around, and has not ended.
C36_FiresAfterVanishing ==
    /\ doc = 15 /\ pc = "sub" /\ ~CurEng.end
    /\ \E i, j, k \in 1..Len(cmds) :
          /\ i < j /\ j < k
          /\ cmds[i].e = cur[2] /\ cmds[i].c.op = "do_vanish"
          /\ cmds[j].e = cur[2] /\ cmds[j].c.op = "do_vanish"
          /\ cmds[k].e = cur[2] /\ cmds[k].c.op = "create_simple_bullet"


\* C37: within one run call an engine executes nodes of at most one root
\* cursor: the index of the root cursor changes in no pass of the walk and
\* not at the entry of run, only when run returns, by one, with the cursor
\* exhausted; a node of a later root cursor is executed no earlier than the
\* frame after the one in which the previous cursor was exhausted, and no
\* earlier than the wake turn the engine holds.
C37_OneRootCursorPerCall ==
    [][/\ pc \in {"run", "sub"} /\ pc' = "sub"
          => CurEngNext.act_iter = CurEng.act_iter
       /\ \A re \in Engines :
             rs'[re[1]].runners[re[2]].act_iter # EngOf(re).act_iter
                => /\ pc = "sub" /\ pc' # "sub" /\ re = cur
                   /\ IsNone(CurEng.act)
                   /\ CurEngNext.act_iter = CurEng.act_iter + 1
       /\ (pc = "sub" /\ pc' = "sub" /\ CurEng.act_iter >= 2)
          => /\ Len(CurEng.obs.root_left) = CurEng.act_iter - 1
             /\ rs[cur[1]].turn > CurEng.obs.root_left[CurEng.act_iter - 1]
             /\ rs[cur[1]].turn >= ActTurnOr0(CurEng)]_vars

\* The second root cursor of an engine is about to execute its first node:
\* the first cursor ended with a wait and was exhausted at least two frames
\* ago, and the turn is the wake turn that wait left.
C37_SecondRootWaitsForWake ==
    /\ pc = "sub" /\ CurEng.act_iter = 2
    /\ CurEng.act = Some(CurEng.obs.roots[2])
    /\ CurEng.obs.roots[2] \notin CurEng.obs.executed
    /\ Len(CurEng.obs.root_left) = 1
    /\ rs[cur[1]].turn >= CurEng.obs.root_left[1] + 2
    /\ rs[cur[1]].turn = ActTurnOr0(CurEng)


\* The element each kind of node is parsed from.
ElementOf ==
    [BulletML |-> "bulletml", Bullet |-> "bullet", Action |-> "action", Fire |-> "fire",
     ChangeDirection |-> "changeDirection", ChangeSpeed |-> "changeSpeed",
     Accel |-> "accel", Wait |-> "wait", Vanish |-> "vanish", Repeat |-> "repeat",
     Direction |-> "direction", Speed |-> "speed", Horizontal |-> "horizontal",
     Vertical |-> "vertical", Term |-> "term", Times |-> "times",
     BulletRef |-> "bulletRef", ActionRef |-> "actionRef", FireRef |-> "fireRef",
     Param |-> "param"]

\* The document satisfies the grammar: every node is of a kind that is legal
\* under its parent.
Grammatical(bml) ==
    \A n \in 1..Len(bml.arena) :
       IsSome(bml.arena[n].parent)
          => ElementOf[bml.arena[n].kind]
                \in LegalUnder(ElementOf[bml.arena[Unwrap(bml.arena[n].parent)].kind])

\* Every reference of the document resolves.
Resolving(bml) ==
    \A n \in 1..Len(bml.arena) :
       IsRefKind(bml.arena[n].kind)
          => Unwrap(bml.arena[n].label) \in DOMAIN RefTable(bml, bml.arena[n].kind)

\* The repeats the walk of eng will climb into from node n, innermost first,
\* with the k lowest frames of the reference stack: the walk goes up through
\* the parents, and from the definition of the top reference frame to the
\* node of the reference, until it meets a root cursor.  <<0>> stands for a
\* walk that meets a root cursor with a reference frame left, or runs out of
\* parents.
RECURSIVE RepeatsAbove(_, _, _, _)
RepeatsAbove(arena, eng, n, k) ==
    IF k > 0 /\ eng.ref_stack[k].ref_id = n
    THEN RepeatsAbove(arena, eng, eng.ref_stack[k].prev, k - 1)
    ELSE IF n \in eng.root_nodes THEN (IF k = 0 THEN <<>> ELSE <<0>>)
    ELSE IF IsNone(arena[n].parent) THEN <<0>>
    ELSE IF arena[Unwrap(arena[n].parent)].kind = "Repeat"
         THEN <<Unwrap(arena[n].parent)>>
                 \o RepeatsAbove(arena, eng, Unwrap(arena[n].parent), k)
    ELSE RepeatsAbove(arena, eng, Unwrap(arena[n].parent), k)

\* The repeats whose frames are on the repeat stack of eng, top first.
RepeatsStacked(arena, eng) ==
    [i \in 1..Len(eng.repeat_stack) |->
        Unwrap(arena[eng.repeat_stack[Len(eng.repeat_stack) + 1 - i].act].parent)]

\* C38: stack discipline.  Over the documents that satisfy the grammar and
\* whose references all resolve, for every engine: the frames of the repeat
\* stack are, top first, those of the repeats the walk will climb into from
\* the active node, so that at every climb into a repeat the stack is
\* non-empty and its top frame is the one pushed for that repeat; the walk
\* meets a root cursor or a reference frame before it runs out of parents;
\* when a root cursor has finished, or the next one has not begun, the
\* repeat stack and the reference stack are empty; and the walk panics only
\* in the handler of a node, never in the climb.
C38_StackDiscipline ==
    [][(Grammatical(Docs[doc]) /\ Resolving(Docs[doc]))
         => /\ \A re \in Engines :
                  IF IsSome(EngOf(re).act)
                  THEN RepeatsAbove(Docs[doc].arena, EngOf(re), Unwrap(EngOf(re).act),
                                    Len(EngOf(re).ref_stack))
                          = RepeatsStacked(Docs[doc].arena, EngOf(re))
                  ELSE EngOf(re).repeat_stack = <<>> /\ EngOf(re).ref_stack = <<>>
            /\ (pc = "sub" /\ pc' = "panic")
                  => NodePanics(CurEng, Unwrap(CurEng.act), Cx(cur[1]))]_vars


\* In the document with nested repeats, which satisfies the grammar and
\* whose reference resolves, the engine is in the second iteration of the
\* outer loop and, through the reference, in the third of the referenced
\* one, which it climbed into twice: two repeat frames and one reference
\* frame are stacked.
C38_TwoFramesUnderAReference ==
    /\ doc = 15 /\ Grammatical(Docs[doc]) /\ Resolving(Docs[doc])
    /\ pc = "sub" /\ IsSome(CurEng.act)
    /\ Len(CurEng.ref_stack) = 1
    /\ Len(CurEng.repeat_stack) = 2
    /\ CurEng.repeat_stack[1].iter = 1
    /\ CurEng.repeat_stack[2].iter = 2
    /\ RepeatsStacked(Docs[doc].arena, CurEng) = <<14, 3>>


\* C39: Runner::run advances every engine that has not ended, in the order
\* of creation, also after Runner::is_end has become true.  A call goes
\* through the engines from the first to the last one by one; the step of
\* one engine leaves the other engines as they are; when the call has
\* returned every engine that has not ended has been given the turn of the
\* call, and an ended one the turn at which it ended; the commands of a call
\* come in the order of the engines.
C39_EveryEngineAdvancedInOrder ==
    [][/\ pc' = "run" => \/ pc = "idle" /\ cur'[2] = 1
                         \/ /\ pc \in {"run", "sub"}
                            /\ cur' = <<cur[1], cur[2] + 1>>
                            /\ cur[2] < Len(rs[cur[1]].runners)
       /\ (pc \in {"run", "sub"} /\ pc' = "idle")
            => cur[2] = Len(rs[cur[1]].runners)
       /\ pc \in {"run", "sub"}
            => \A re \in Engines \ {cur} : rs'[re[1]].runners[re[2]] = EngOf(re)
       /\ pc' = "idle"
            => \A re \in Engines :
                  rs'[re[1]].turn >= 1
                     => IF rs'[re[1]].runners[re[2]].end
                        THEN Some(rs'[re[1]].runners[re[2]].end_turn)
                                = rs'[re[1]].runners[re[2]].obs.ended_at
                        ELSE rs'[re[1]].runners[re[2]].end_turn = rs'[re[1]].turn - 1
       /\ \A i, j \in 1..Len(cmds') : i < j => cmds'[i].e <= cmds'[j].e]_vars

\* The first engine of a Runner ended in an earlier call, so that
\* Runner::is_end is true, and the second engine is about to execute a node
\* after a wait.
C39_SecondRunsAfterFirstEnded ==
    /\ pc = "sub" /\ cur[2] = 2
    /\ rs[cur[1]].runners[1].end
    /\ RunnerIsEnd(rs[cur[1]].runners)
    /\ Unwrap(rs[cur[1]].runners[1].obs.ended_at) < rs[cur[1]].turn
    /\ IsSome(CurEng.act) /\ ~is_turn_end(CurEng)
    /\ ActTurnOr0(CurEng) >= 1


\* Engine eng with the coordinate tag t.
Retag(eng, t) == [eng EXCEPT !.bml_type = t]

\* Command c with the tag of the State it carries, if any, taken off.
UntagCmd(c) ==
    IF c.op = "create_bullet" THEN [c EXCEPT !.state.bml_type = "None"] ELSE c

\* What a pass of run_sub yields, the tags taken off.
Untagged(res) ==
    [eng |-> Retag(res.eng, "None"),
     cmds |-> [i \in 1..Len(res.cmds) |-> UntagCmd(res.cmds[i])],
     panic |-> res.panic]

\* The document bml with every absolute-typed direction reduced by 90 and
\* the horizontal and vertical children of the accelerate nodes exchanged.
Quarter(bml) ==
    BulletML([n \in 1..Len(bml.arena) |->
                IF bml.arena[n].kind = "Direction" /\ bml.arena[n].ty = "Absolute"
                THEN [bml.arena[n] EXCEPT !.expr = Sub(@, K(90))]
                ELSE IF bml.arena[n].kind = "Horizontal"
                     THEN [bml.arena[n] EXCEPT !.kind = "Vertical"]
                ELSE IF bml.arena[n].kind = "Vertical"
                     THEN [bml.arena[n] EXCEPT !.kind = "Horizontal"]
                ELSE bml.arena[n]])

\* The pass of run_sub of engine eng under tag t commands bullets whose
\* States carry t, and so do the engines created from them.
CarriesTag(eng, t, cx) ==
    \A i \in 1..Len(RunSubStep(Retag(eng, t), cx).cmds) :
       RunSubStep(Retag(eng, t), cx).cmds[i].op = "create_bullet"
          => /\ RunSubStep(Retag(eng, t), cx).cmds[i].state.bml_type = t
             /\ RunnerImplNew(RunSubStep(Retag(eng, t), cx).cmds[i].state).bml_type = t

\* C40: the coordinate tag influences only two things.  In every pass of the
\* walk, and at the entry and the return of run, an engine with the vertical
\* tag does and commands what the same engine with no tag does; an engine
\* with the horizontal tag does and commands what the same engine with no
\* tag does on the document whose absolute directions are reduced by 90 and
\* whose accelerate axes are exchanged; every State spawned carries the tag
\* of its parent, and every engine the tag of the document.
C40_TagTurnsAbsoluteAndAxesOnly ==
    [][/\ (pc = "sub" /\ IsSome(CurEng.act) /\ ~is_turn_end(CurEng))
          => /\ Untagged(RunSubStep(Retag(CurEng, "Vertical"), Cx(cur[1])))
                  = Untagged(RunSubStep(Retag(CurEng, "None"), Cx(cur[1])))
             /\ Untagged(RunSubStep(Retag(CurEng, "Horizontal"), Cx(cur[1])))
                  = Untagged(RunSubStep(Retag(CurEng, "None"),
                                        [Cx(cur[1]) EXCEPT !.bml = Quarter(@)]))
             /\ \A t \in {"None", "Vertical", "Horizontal"} :
                   CarriesTag(CurEng, t, Cx(cur[1]))
       /\ pc = "run"
          => \A t \in {"Vertical", "Horizontal"} :
                /\ Retag(RunEnter(Retag(CurEng, t), Cx(cur[1])).eng, "None")
                     = RunEnter(Retag(CurEng, "None"), Cx(cur[1])).eng
                /\ RunEnter(Retag(CurEng, t), Cx(cur[1])).cmds
                     = RunEnter(Retag(CurEng, "None"), Cx(cur[1])).cmds
                /\ RunEnter(Retag(CurEng, t), Cx(cur[1])).sub
                     = RunEnter(Retag(CurEng, "None"), Cx(cur[1])).sub
       /\ pc = "sub"
          => \A t \in {"Vertical", "Horizontal"} :
                Retag(RunLeave(Retag(CurEng, t)), "None") = RunLeave(Retag(CurEng, "None"))
       /\ \A re \in Engines : EngOf(re).bml_type = get_type(Docs[doc])]_vars

\* In the document with the horizontal tag an engine has fired with the
\* absolute direction 100: the bullet was commanded at 10.
C40_HorizontalFiresAbsoluteAt10 ==
    /\ get_type(Docs[doc]) = "Horizontal" /\ pc = "sub"
    /\ CurEng.bml_type = "Horizontal"
    /\ 12 \in CurEng.obs.executed
    /\ \E i \in 1..Len(cmds) :
          /\ cmds[i].e = cur[2]
          /\ cmds[i].c.op = "create_simple_bullet"
          /\ cmds[i].c.direction = Deg(10)

\* An engine is at an accelerate node with a horizontal and a vertical child
\* of different values: under the horizontal tag it would install other
\* ramps than under none.
C40_AxesExchangedAtAccel ==
    /\ pc = "sub" /\ IsSome(CurEng.act) /\ ~is_turn_end(CurEng)
    /\ CurNode.kind = "Accel"
    /\ RunSubStep(Retag(CurEng, "Horizontal"), Cx(cur[1])).eng.accel_x
          # RunSubStep(Retag(CurEng, "None"), Cx(cur[1])).eng.accel_x
    /\ RunSubStep(Retag(CurEng, "Horizontal"), Cx(cur[1])).eng.accel_x
          = RunSubStep(Retag(CurEng, "None"),
                       [Cx(cur[1]) EXCEPT !.bml = Quarter(@)]).eng.accel_x

====
